---- MODULE Spec2Model ----
(***************************************************************************)
(* Selection engine of the Azure DevOps multi-select controls:             *)
(*   - CascadingMultiSelectControl (popup tree picker, second class of     *)
(*     src/src/CascadingMultiSelect.ts),                                   *)
(*   - IdentityMultiSelectControl (src/src/IdentityMultiSelect.ts),        *)
(*   - the earlier search-based identity control (src/unnamed/part_002).   *)
(* Text values are sequences of one-character strings, so that split,     *)
(* trim, join and the token regular expressions are computed.              *)
(***************************************************************************)
EXTENDS Integers, Sequences, FiniteSets, TLC

VARIABLES
  \* environment of the cascading control
  witInputs,        \* VSS.getConfiguration().witInputs: fieldValues, parentSelectMode, multiSelectSeparator
  hostField,        \* value of the bound work item field as held by the host
  layout,           \* live layout measurements: trigger rectangle, viewport, popup content
  \* CascadingMultiSelectControl instance
  data, configuration, selectedValues, expandedItems, treeVisible, popupActive,
  rendered,         \* the container holds the rendered control (and so a trigger element)
  popupRef,         \* index in domPopups of container.popupElement, 0 when the property is absent
  domPopups,        \* tree popups present in the document, in creation order
  placement,        \* style applied to the popup by the last showTreePopup
  loadsStarted, pendingLoads,   \* loadConfiguration calls made / getFieldValue calls not yet resolved
  pendingWrites,    \* setFieldValue calls not yet applied by the host, oldest first
  host,             \* what the host offers: the configuration object, the form service, VSS.register
  fieldName, workItemFormService,   \* the control has a field name / holds the form service
  notified,         \* calls of VSS.notifyLoadSucceeded and VSS.notifyLoadFailed made so far
  now,              \* Date.now() in milliseconds
  popupCreatedTime, \* container.popupCreatedTime, 0 when the property is absent
  documentListeners,\* click listeners the control has registered on the document
  other,            \* the instance fields of a second control on the same page
  \* CascadingMultiSelectControl of the SDK generation (first class of the file)
  firstData,        \* this.data as JSON.parse left it: an array of items or another value
  firstSelected,    \* this.selectedValues
  firstFlags,       \* ids of the items of this.data whose selected / expanded property is true
  firstView,        \* the rendered container: checkboxes, their checked flags, open arrows, chips
  firstRuns,        \* initialize calls in flight, oldest first: awaited promise and caller
  firstNotified,    \* calls of SDK.notifyLoadSucceeded and SDK.notifyLoadFailed made so far
  \* environment of the identity controls
  idInputs,         \* VSS.getConfiguration().witInputs of the identity control: maxSelections, separator
  storageField,     \* value of the storage (string) field as held by the host
  sourceField,      \* value of the identity source field the poller watches
  \* IdentityMultiSelectControl instance
  selectedIdentities, maxSelections, separator,
  phase,            \* position of initializeControl: "constructed", "configured", "ready"
  lastValue,        \* lastValue of startFieldMonitoring
  clearTimers,      \* setTimeout callbacks waiting to clear the identity source field
  lastMessage,      \* showMessage was called by the last handler (an alert is on screen)
  isReadOnly        \* this.isReadOnly: what the host answered when loadFieldValue asked

cvars == <<witInputs, hostField, layout, data, configuration, selectedValues, expandedItems,
           treeVisible, popupActive, rendered, popupRef, domPopups, placement,
           loadsStarted, pendingLoads, pendingWrites,
           host, fieldName, workItemFormService, notified, now, popupCreatedTime,
           documentListeners, other>>

fvars == <<firstData, firstSelected, firstFlags, firstView, firstRuns, firstNotified>>

ivars == <<idInputs, storageField, sourceField, selectedIdentities, maxSelections, separator,
           phase, lastValue, clearTimers, lastMessage, isReadOnly>>

-----------------------------------------------------------------------------
(* Bounds of the model *)
MaxLoads == 2
MaxPopups == 2
MaxPending == 1
MaxListeners == 2
StartTime == 1000
TickLength == 100
MaxClock == 1200

-----------------------------------------------------------------------------
(* Text helpers: String.prototype.trim / split / Array.prototype.join *)

Range(s) == {s[i] : i \in 1..Len(s)}

IsSpace(ch) == ch \in {" ", "\t", "\n", "\r"}

RECURSIVE TrimStart(_)
TrimStart(s) == IF s # <<>> /\ IsSpace(Head(s)) THEN TrimStart(Tail(s)) ELSE s

RECURSIVE TrimEnd(_)
TrimEnd(s) == IF s # <<>> /\ IsSpace(s[Len(s)]) THEN TrimEnd(SubSeq(s, 1, Len(s) - 1)) ELSE s

Trim(s) == TrimEnd(TrimStart(s))

RECURSIVE SplitFrom(_, _, _)
SplitFrom(s, seps, cur) ==
  IF s = <<>> THEN <<cur>>
  ELSE IF Head(s) \in seps THEN <<cur>> \o SplitFrom(Tail(s), seps, <<>>)
  ELSE SplitFrom(Tail(s), seps, Append(cur, Head(s)))

\* s.split(sep) for a one-character separator (or a character class)
Split(s, seps) == SplitFrom(s, seps, <<>>)

RECURSIVE Join(_, _)
Join(parts, sep) ==
  IF parts = <<>> THEN <<>>
  ELSE IF Len(parts) = 1 THEN parts[1]
  ELSE parts[1] \o sep \o Join(Tail(parts), sep)

RECURSIVE MapTrim(_)
MapTrim(parts) == IF parts = <<>> THEN <<>> ELSE <<Trim(Head(parts))>> \o MapTrim(Tail(parts))

NonEmpty(parts) == SelectSeq(parts, LAMBDA v : Len(v) > 0)

(* A JavaScript Set: insertion-ordered, no duplicates *)
RECURSIVE NewSet(_)
NewSet(values) ==
  IF values = <<>> THEN <<>>
  ELSE LET init == NewSet(SubSeq(values, 1, Len(values) - 1))
           last == values[Len(values)]
       IN IF last \in Range(init) THEN init ELSE Append(init, last)

SetAdd(set, v) == IF v \in Range(set) THEN set ELSE Append(set, v)
\* a delete that empties the set, as Set.prototype.clear does
SetDelete_Clear(set, v) == IF v \in Range(set) THEN <<>> ELSE set
SetDelete(set, v) == SelectSeq(set, LAMBDA e : e # v)

-----------------------------------------------------------------------------
(* Hierarchical data: two levels, as the control documents *)

\* an item of the configured JSON; childrenGiven tells whether it has a "children" key
\* and the name is the id unless one is given
Leaf(i) == [id |-> i, name |-> i, children |-> <<>>, childrenGiven |-> FALSE]
Node(i, kids) == [id |-> i, name |-> i, children |-> kids, childrenGiven |-> TRUE]
Named(item, n) == [item EXCEPT !.name = n]

id_cat == <<"c", "a", "t">>
id_x == <<"x">>
id_y == <<"y">>
id_a == <<"a">>
id_b == <<"b">>
id_ghost == <<"g", "h", "o", "s", "t">>
id_p == <<"p">>
id_q == <<"q">>
id_uv == <<"u", ";", "v">>
id_w == <<" ", "w">>

TreeCat == <<Node(id_cat, <<Leaf(id_x), Leaf(id_y)>>)>>
TreeFlat == <<Leaf(id_a), Node(id_b, <<>>)>>
TreePair == <<Node(id_p, <<Leaf(id_q)>>)>>
TreeOdd == <<Leaf(id_uv), Leaf(id_w)>>
\* two items with the id a, named "1" and "2", and an item b
TreeTwin == <<Named(Leaf(id_a), <<"1">>), Named(Leaf(id_a), <<"2">>), Leaf(id_b)>>

id_category1 == <<"c", "a", "t", "e", "g", "o", "r", "y", "1">>
id_category2 == <<"c", "a", "t", "e", "g", "o", "r", "y", "2">>
id_cat1 == <<"c", "a", "t", "1">>
id_cat2 == <<"c", "a", "t", "2">>
id_item1 == <<"i", "t", "e", "m", "1">>
id_item2 == <<"i", "t", "e", "m", "2">>
id_item3 == <<"i", "t", "e", "m", "3">>
id_item4 == <<"i", "t", "e", "m", "4">>

\* getDefaultData
GetDefaultData ==
  <<Node(id_category1, <<Leaf(id_item1), Leaf(id_item2)>>),
    Node(id_category2, <<Leaf(id_item3), Leaf(id_item4)>>)>>

\* the demonstration tree of initializeFallback
FallbackData ==
  <<Node(id_cat1, <<Leaf(id_item1), Leaf(id_item2)>>),
    Node(id_cat2, <<Leaf(id_item3), Leaf(id_item4)>>)>>

\* a configured fieldValues text, by what JSON.parse makes of it: an array of items,
\* another JSON value, or a SyntaxError
JsonArray(items) == [json |-> "array", items |-> items]
JsonObject == [json |-> "object", items |-> <<>>]
InvalidJson == [json |-> "invalid", items |-> <<>>]

\* loadConfiguration: the parsed array when it is a non-empty array, the default data otherwise
ParsedData(fieldValues) ==
  IF fieldValues.json = "array" /\ Len(fieldValues.items) > 0 THEN fieldValues.items
  ELSE GetDefaultData

RECURSIVE TreeIds(_)
\* ids of the tree in traversal (pre-)order
TreeIds(items) ==
  IF items = <<>> THEN <<>>
  ELSE <<Head(items).id>> \o TreeIds(Head(items).children) \o TreeIds(Tail(items))

\* item.children && item.children.length > 0
HasChildren(item) == item.childrenGiven /\ Len(item.children) > 0

RECURSIVE ContainerIds(_)
ContainerIds(items) ==
  IF items = <<>> THEN {}
  ELSE (IF HasChildren(Head(items)) THEN {Head(items).id} ELSE {})
       \cup ContainerIds(Head(items).children) \cup ContainerIds(Tail(items))

-----------------------------------------------------------------------------
(* Codec of the cascading control *)

\* a decoder that ignores the configured separator and always splits on ';'
LoadedValues_FixedSeparator(currentValue, sep) ==
  NewSet(NonEmpty(MapTrim(Split(currentValue, {";"}))))

\* loadCurrentValue: split on the separator, trim, drop empty tokens, new Set(values)
LoadedValues(currentValue, sep) ==
  NewSet(NonEmpty(MapTrim(Split(currentValue, {sep}))))

\* updateFieldValue: Array.from(this.selectedValues).join(separator)
EncodeValue(selected, sep) == Join(selected, <<sep>>)

-----------------------------------------------------------------------------
(* Overlay placement (showTreePopup) *)

MarginBelow == 4
MarginAbove == 10
AboveThreshold == 50
HeightSlack == 15
MinPopupHeight == 80
MaxPopupHeight == 300
RetryAboveThreshold == 60
RetryAboveMaxHeight == 200
RetryAboveSlack == 10
EmergencyMinHeight == 60
EmergencySlack == 5

Max(a, b) == IF a >= b THEN a ELSE b
Min(a, b) == IF a <= b THEN a ELSE b

\* a viewport that takes the parent window's height whenever it is the larger one
ViewportHeight_AnyLargerParent(l) ==
  IF l.parent = "readable" /\ l.parentHeight # 0 /\ l.parentHeight > l.innerHeight
  THEN l.parentHeight ELSE l.innerHeight

\* the parent window's height replaces window.innerHeight when the control runs in a frame
\* (window !== window.parent), window.parent.innerHeight can be read and is not 0, and it is
\* more than 1.5 times larger; reading a cross-origin parent throws and keeps the local height
ViewportHeight(l) ==
  IF l.parent = "readable" /\ l.parentHeight # 0 /\ 2 * l.parentHeight > 3 * l.innerHeight
  THEN l.parentHeight ELSE l.innerHeight

SpaceBelow(l) == ViewportHeight(l) - (l.bottom + MarginBelow)
SpaceAbove(l) == l.top - MarginAbove

\* the side choice without the minimum-space condition
UseAbovePositioning_NoThreshold(l) == SpaceAbove(l) > SpaceBelow(l)

UseAbovePositioning(l) == SpaceAbove(l) > SpaceBelow(l) /\ SpaceAbove(l) > AboveThreshold

FirstPassMaxHeight(l) ==
  LET availableSpace == IF UseAbovePositioning(l) THEN SpaceAbove(l) ELSE SpaceBelow(l)
  IN Max(MinPopupHeight, Min(MaxPopupHeight, availableSpace - HeightSlack))

FirstPassTop(l) ==
  IF UseAbovePositioning(l) THEN l.top - FirstPassMaxHeight(l) - MarginBelow
  ELSE l.bottom + MarginBelow

\* popup.getBoundingClientRect() after the first pass: the popup is as high as its content,
\* up to max-height, and as wide as the style sheet makes it
PopupRectBottom(l) == FirstPassTop(l) + Min(l.contentHeight, FirstPassMaxHeight(l))
PopupRectRight(l) == l.left + l.popupWidth

\* a horizontal correction that pushes the popup against the right edge of the window
AdjustedLeft_AgainstViewport(l) ==
  IF PopupRectRight(l) > l.innerWidth THEN l.innerWidth - l.popupWidth ELSE l.left

\* style.left: the trigger's left edge, or right-aligned with the trigger on overflow
AdjustedLeft(l) ==
  IF PopupRectRight(l) > l.innerWidth THEN l.right - l.popupWidth ELSE l.left

\* the style that showTreePopup leaves on the popup: first pass, then the off-screen correction
Place(l) ==
  LET first == [side |-> IF UseAbovePositioning(l) THEN "above" ELSE "below",
                top |-> FirstPassTop(l), maxHeight |-> FirstPassMaxHeight(l),
                left |-> AdjustedLeft(l), viewportHeight |-> ViewportHeight(l),
                firstMaxHeight |-> FirstPassMaxHeight(l),
                corrected |-> "no", at |-> l]
      spaceBelowActual == ViewportHeight(l) - l.bottom - MarginBelow
      popupHeight == Min(RetryAboveMaxHeight, SpaceAbove(l) - RetryAboveSlack)
  IN IF PopupRectBottom(l) > ViewportHeight(l)
     THEN IF SpaceAbove(l) > spaceBelowActual /\ SpaceAbove(l) > RetryAboveThreshold
          THEN [first EXCEPT !.side = "above", !.top = l.top - popupHeight - MarginBelow,
                             !.maxHeight = popupHeight, !.corrected = "above"]
          ELSE [first EXCEPT !.maxHeight = Max(EmergencyMinHeight,
                                               ViewportHeight(l) - (l.bottom + MarginBelow) - EmergencySlack),
                             !.corrected = "shrunk"]
     ELSE first

NoLayout == [top |-> 0, bottom |-> 0, left |-> 0, right |-> 0, innerHeight |-> 0, innerWidth |-> 0,
             parent |-> "none", parentHeight |-> 0, contentHeight |-> 0, popupWidth |-> 0]
NoPlacement == [side |-> "none", top |-> 0, maxHeight |-> 0, left |-> 0, viewportHeight |-> 0,
                firstMaxHeight |-> 0, corrected |-> "no", at |-> NoLayout]

-----------------------------------------------------------------------------
(* Rendering and popup of the cascading control.  A control state c is the  *)
(* record of the instance fields; handlers are composed as functions on it.  *)

Ctl == [data |-> data, configuration |-> configuration, selectedValues |-> selectedValues,
        expandedItems |-> expandedItems, treeVisible |-> treeVisible, popupActive |-> popupActive,
        rendered |-> rendered, popupRef |-> popupRef, domPopups |-> domPopups,
        placement |-> placement, pendingWrites |-> pendingWrites,
        fieldName |-> fieldName, workItemFormService |-> workItemFormService,
        notified |-> notified, popupCreatedTime |-> popupCreatedTime,
        documentListeners |-> documentListeners]

Commit(c) ==
  /\ data' = c.data /\ configuration' = c.configuration
  /\ selectedValues' = c.selectedValues /\ expandedItems' = c.expandedItems
  /\ treeVisible' = c.treeVisible /\ popupActive' = c.popupActive
  /\ rendered' = c.rendered /\ popupRef' = c.popupRef /\ domPopups' = c.domPopups
  /\ placement' = c.placement /\ pendingWrites' = c.pendingWrites
  /\ fieldName' = c.fieldName /\ workItemFormService' = c.workItemFormService
  /\ notified' = c.notified /\ popupCreatedTime' = c.popupCreatedTime
  /\ documentListeners' = c.documentListeners

RECURSIVE VisibleItems(_, _)
\* the items renderTreeItems emits: every top-level item, children only under an expanded item
VisibleItems(items, expanded) ==
  IF items = <<>> THEN <<>>
  ELSE LET item == Head(items)
       IN <<item>>
          \o (IF HasChildren(item) /\ item.id \in expanded
              THEN VisibleItems(item.children, expanded) ELSE <<>>)
          \o VisibleItems(Tail(items), expanded)

\* a rule that counts an empty children list as children
CanSelect_UnlessListGiven(c, item) == c.configuration.parentSelectMode \/ ~item.childrenGiven

CanSelect(c, item) == c.configuration.parentSelectMode \/ ~HasChildren(item)

\* renderTreeItems: checkboxes (with their checked attribute) and expand buttons of the popup.
\* boxes and checked describe, per id, the first checkbox that carries the id; later holds
\* the checkboxes of the rows whose id an earlier row already carries
RenderTreeItems(c) ==
  LET rows == VisibleItems(c.data, c.expandedItems)
      vis == Range(rows)
      boxes == {item.id : item \in {v \in vis : CanSelect(c, v)}}
      repeated == {k \in DOMAIN rows :
                     /\ CanSelect(c, rows[k])
                     /\ \E j \in 1..k - 1 : CanSelect(c, rows[j]) /\ rows[j].id = rows[k].id}
  IN [boxes |-> boxes,
      checked |-> boxes \cap Range(c.selectedValues),
      buttons |-> {item.id : item \in {v \in vis : HasChildren(v)}},
      later |-> {[row |-> k, id |-> rows[k].id, name |-> rows[k].name,
                  checked |-> rows[k].id \in Range(c.selectedValues)] : k \in repeated}]

RECURSIVE FindItem(_, _)
\* findItem of getItemName: the name of the first item in traversal order that has the id;
\* <<>> stands for null and for an empty name, which the callers treat alike
FindItem(items, id) ==
  IF items = <<>> THEN <<>>
  ELSE LET item == Head(items)
           found == IF item.childrenGiven THEN FindItem(item.children, id) ELSE <<>>
       IN IF item.id = id THEN item.name
          ELSE IF found # <<>> THEN found
          ELSE FindItem(Tail(items), id)

\* getItemName
GetItemName(items, id) == IF FindItem(items, id) # <<>> THEN FindItem(items, id) ELSE id

\* renderSelectedValues: the chips of the selected list, one per element of
\* Array.from(this.selectedValues), each with the item's name and a remove button for the id
RenderSelectedValues(c) ==
  [k \in 1..Len(c.selectedValues) |->
     [id |-> c.selectedValues[k], name |-> GetItemName(c.data, c.selectedValues[k])]]

\* a hideTreePopup that leaves its click listener on the document
HideTreePopup_KeepsListener(c) ==
  IF c.popupRef = 0 THEN c
  ELSE [c EXCEPT !.treeVisible = FALSE, !.popupActive = FALSE,
                 !.popupRef = 0, !.domPopups = <<>>, !.popupCreatedTime = 0]

\* hideTreePopup: acts only when the container still carries the popup references
HideTreePopup(c) ==
  IF c.popupRef = 0 THEN c
  ELSE [c EXCEPT !.treeVisible = FALSE, !.popupActive = FALSE,
                 !.popupRef = 0, !.domPopups = <<>>,
                 !.popupCreatedTime = 0, !.documentListeners = @ - 1]

ShowTreePopup(c, l) ==
  LET h == HideTreePopup(c)
  IN IF ~h.rendered THEN h
     ELSE [h EXCEPT !.domPopups = Append(h.domPopups, RenderTreeItems(h)),
                    !.popupRef = Len(h.domPopups) + 1,
                    !.placement = Place(l),
                    !.popupCreatedTime = now, !.documentListeners = @ + 1,
                    !.treeVisible = TRUE, !.popupActive = TRUE]

\* attachEventListeners: the container is replaced by its clone, which carries no popup references
AttachEventListeners(c) == [c EXCEPT !.popupRef = 0, !.popupCreatedTime = 0]

Render(c, l) ==
  LET a == AttachEventListeners([c EXCEPT !.rendered = TRUE])
  IN IF a.treeVisible THEN ShowTreePopup(a, l) ELSE a

GracePeriod == 200

\* a documentClickHandler without the test of the age of the popup
DocumentClickHandler_NoGrace(c) ==
  IF c.documentListeners = 0 \/ ~c.popupActive THEN c
  ELSE HideTreePopup(c)

\* documentClickHandler, for a click with mouse coordinates whose target lies outside the
\* popup, its trigger and the container; every registered handler reads the same fields
DocumentClickHandler(c) ==
  IF c.documentListeners = 0 \/ ~c.popupActive THEN c
  ELSE IF now - c.popupCreatedTime < GracePeriod THEN c
  ELSE HideTreePopup(c)

\* renderError: the container holds the message only
RenderError(c) == [c EXCEPT !.rendered = FALSE]

NotifyLoadSucceeded(c) == [c EXCEPT !.notified.succeeded = @ + 1]
NotifyLoadFailed(c) == [c EXCEPT !.notified.failed = @ + 1]

\* initializeFallback: demonstration configuration and data, then render
InitializeFallback(c, l) ==
  Render([c EXCEPT !.fieldName = TRUE,
                   !.configuration = [parentSelectMode |-> FALSE, multiSelectSeparator |-> ";"],
                   !.data = FallbackData], l)

WithinBounds(c) == Len(c.domPopups) <= MaxPopups /\ c.documentListeners <= MaxListeners

\* an updateFieldValue that writes nothing when the selection has become empty
UpdateFieldValue_SkipsEmpty(c, bound) ==
  IF bound /\ Len(c.selectedValues) > 0
  THEN [c EXCEPT !.pendingWrites =
          Append(@, EncodeValue(c.selectedValues, c.configuration.multiSelectSeparator))]
  ELSE c

\* updateFieldValue: setFieldValue(fieldName, Array.from(selectedValues).join(separator))
UpdateFieldValue(c, bound) ==
  IF bound
  THEN [c EXCEPT !.pendingWrites =
          Append(@, EncodeValue(c.selectedValues, c.configuration.multiSelectSeparator))]
  ELSE c

-----------------------------------------------------------------------------
(* Environment of the cascading control *)

Separators == {";", ","}
Trees == {TreeCat, TreePair, TreeFlat, TreeOdd}

Inputs(tree, psm, seps, bound) ==
  [fieldValues : {JsonArray(tree)}, parentSelectMode : {psm}, multiSelectSeparator : seps, FieldName : {bound}]

\* configurations of the control the model explores
Configurations ==
  Inputs(TreeCat, FALSE, Separators, TRUE) \cup Inputs(TreeCat, FALSE, {";"}, FALSE)
  \cup Inputs(TreePair, TRUE, {";"}, TRUE)
  \cup Inputs(TreeFlat, FALSE, Separators, TRUE)
  \cup Inputs(TreeOdd, FALSE, Separators, TRUE)

\* selections a previous session may have stored in the field, per configured tree
StoredSelections(tree) ==
  IF tree = TreeCat THEN {<<>>, <<id_x>>, <<id_y, id_x>>, <<id_cat>>}
  ELSE IF tree = TreePair THEN {<<>>, <<id_q>>}
  ELSE IF tree = TreeFlat THEN {<<id_a, id_ghost, id_b>>}
  ELSE IF tree = TreeTwin THEN {<<>>, <<id_a>>}
  ELSE {<<>>}

TriggerHeight == 20
TriggerWidth == 100

\* the trigger of the specification's example, in a window 600 high and 800 wide
DefaultLayout ==
  [top |-> 100, bottom |-> 100 + TriggerHeight, left |-> 10, right |-> 10 + TriggerWidth,
   innerHeight |-> 600, innerWidth |-> 800, parent |-> "none", parentHeight |-> 0,
   contentHeight |-> 50, popupWidth |-> 200]

\* triggers at several heights of a small, a medium and a large window
VerticalLayouts ==
  {[DefaultLayout EXCEPT !.top = t, !.bottom = t + TriggerHeight, !.innerHeight = v,
                         !.contentHeight = h] :
     t \in {0, 30, 65, 75, 100, 500, 700}, v \in {60, 200, 600}, h \in {50, 400}}

\* the control in a frame 200 high whose parent window is, or cannot be, read
FramedLayouts ==
  {[DefaultLayout EXCEPT !.innerHeight = 200, !.parent = "readable", !.parentHeight = ph] :
     ph \in {0, 150, 300, 301, 900}}
  \cup {[DefaultLayout EXCEPT !.innerHeight = 200, !.parent = "crossOrigin", !.parentHeight = 900]}

\* triggers near the right edge of the window, with a narrow and a wide popup
HorizontalLayouts ==
  {[DefaultLayout EXCEPT !.left = x, !.right = x + TriggerWidth, !.popupWidth = w] :
     x \in {600, 650, 700}, w \in {150, 200}}

\* a trigger in the lower half of a low window
LowWindowLayouts ==
  {[DefaultLayout EXCEPT !.top = 75, !.bottom = 75 + TriggerHeight, !.innerHeight = 150]}

Layouts == VerticalLayouts \cup FramedLayouts \cup HorizontalLayouts \cup LowWindowLayouts

NoConfiguration == [parentSelectMode |-> FALSE, multiSelectSeparator |-> ";"]

\* configurations whose fieldValues is not a non-empty JSON array
BrokenInputs ==
  [fieldValues : {InvalidJson, JsonObject, JsonArray(<<>>)}, parentSelectMode : {FALSE},
   multiSelectSeparator : {";"}, FieldName : {TRUE}]

Hosts == [config : BOOLEAN, service : BOOLEAN, register : BOOLEAN]
HealthyHost == [config |-> TRUE, service |-> TRUE, register |-> TRUE]

NotNotified == [succeeded |-> 0, failed |-> 0]

\* the instance fields of a control as the constructor leaves them
Constructed ==
  [data |-> <<>>, configuration |-> NoConfiguration, selectedValues |-> <<>>,
   expandedItems |-> {}, treeVisible |-> FALSE, popupActive |-> FALSE, rendered |-> FALSE,
   popupRef |-> 0, domPopups |-> <<>>, placement |-> NoPlacement, pendingWrites |-> <<>>,
   fieldName |-> FALSE, workItemFormService |-> FALSE, notified |-> NotNotified,
   popupCreatedTime |-> 0, documentListeners |-> 0]

\* the form: the inputs of the contribution, the stored field value, the host, the clock
EnvironmentInit(configurations, hosts) ==
  /\ witInputs \in configurations
  /\ hostField \in {Join(sel, <<witInputs.multiSelectSeparator>>) :
                      sel \in StoredSelections(witInputs.fieldValues.items)}
  /\ host \in hosts /\ now = StartTime
  /\ pendingWrites = <<>>

\* the instance as its constructor leaves it
InstanceConstructed ==
  /\ other = Constructed
  /\ fieldName = FALSE /\ workItemFormService = FALSE /\ notified = NotNotified
  /\ popupCreatedTime = 0 /\ documentListeners = 0
  /\ data = <<>> /\ configuration = NoConfiguration
  /\ selectedValues = <<>> /\ expandedItems = {}
  /\ treeVisible = FALSE /\ popupActive = FALSE
  /\ rendered = FALSE /\ popupRef = 0 /\ domPopups = <<>>
  /\ placement = NoPlacement
  /\ loadsStarted = 0 /\ pendingLoads = 0

NoFlags == [selected |-> {}, expanded |-> {}]
NoView == [shown |-> FALSE, live |-> FALSE, boxes |-> {}, checked |-> {}, buttons |-> {},
           open |-> {}, chips |-> <<>>]

\* the fields of the control of the SDK generation before any initialize call
FirstFields ==
  /\ firstData = JsonArray(<<>>) /\ firstSelected = <<>> /\ firstFlags = NoFlags
  /\ firstView = NoView /\ firstNotified = NotNotified

\* no control of the SDK generation on the form
FirstAbsent == FirstFields /\ firstRuns = <<>>

CascadeInit(configurations, hosts) ==
  EnvironmentInit(configurations, hosts) /\ InstanceConstructed /\ FirstAbsent

CInit == CascadeInit(Configurations, {HealthyHost})

\* the control is bound to a field and has the form service
Bound == fieldName /\ workItemFormService

-----------------------------------------------------------------------------
(* Operations of the cascading control *)

\* initializeControl when VSS.register throws: the error is rendered, the fallback is set up
\* and the host is told that loading failed
RegistrationFails ==
  /\ ~host.register /\ ~rendered /\ notified = NotNotified
  /\ Commit(NotifyLoadFailed(InitializeFallback(RenderError(Ctl), layout)))
  /\ UNCHANGED <<fvars, ivars, witInputs, hostField, layout, host, now, other, loadsStarted, pendingLoads>>

\* loadConfiguration up to the first await: configuration and data are set; with a field
\* name getWorkItemFormService goes on to loadCurrentValue, otherwise the control renders;
\* without a configuration object the catch block sets the defaults and renders
LoadConfiguration ==
  /\ host.register
  /\ loadsStarted < MaxLoads
  /\ loadsStarted' = loadsStarted + 1
  /\ IF host.config
     THEN LET c == [Ctl EXCEPT !.fieldName = witInputs.FieldName,
                               !.configuration = [parentSelectMode |-> witInputs.parentSelectMode,
                                                  multiSelectSeparator |-> witInputs.multiSelectSeparator],
                               !.data = ParsedData(witInputs.fieldValues)]
          IN IF c.fieldName
             THEN Commit(c) /\ pendingLoads' = pendingLoads + 1
             ELSE /\ WithinBounds(Render(c, layout))
                  /\ Commit(NotifyLoadSucceeded(Render(c, layout))) /\ UNCHANGED pendingLoads
     ELSE LET c == [Ctl EXCEPT !.fieldName = FALSE, !.configuration = NoConfiguration,
                               !.data = GetDefaultData]
          IN /\ WithinBounds(Render(RenderError(c), layout))
             /\ Commit(NotifyLoadSucceeded(Render(RenderError(c), layout)))
             /\ UNCHANGED pendingLoads
  /\ UNCHANGED <<fvars, ivars, witInputs, hostField, layout, host, now, other>>

\* getWorkItemFormService after its awaits: with the form service, loadCurrentValue (the
\* getFieldValue has resolved), render and notify; without it tryAlternativeServiceMethods
\* renders the error, renders the control and notifies
LoadCurrentValue ==
  /\ pendingLoads > 0
  /\ pendingLoads' = pendingLoads - 1
  /\ IF host.service
     THEN LET sep == configuration.multiSelectSeparator
              c0 == [Ctl EXCEPT !.workItemFormService = TRUE]
              c1 == IF c0.fieldName
                    THEN [c0 EXCEPT !.selectedValues =
                            IF hostField # <<>> THEN LoadedValues(hostField, sep) ELSE <<>>]
                    ELSE c0
              c2 == IF c1.fieldName /\ c1.rendered THEN Render(c1, layout) ELSE c1
              c3 == NotifyLoadSucceeded(Render(c2, layout))
          IN /\ WithinBounds(c3)
             /\ Commit(c3)
     ELSE LET c3 == NotifyLoadSucceeded(Render(RenderError(Ctl), layout))
          IN /\ WithinBounds(c3)
             /\ Commit(c3)
  /\ UNCHANGED <<fvars, ivars, witInputs, hostField, layout, host, now, other, loadsStarted>>

\* a change handler that also ticks or clears the children of the item
ChangeHandler_Cascading(c, p, id) ==
  LET checked == id \notin c.domPopups[p].checked
      kids == UNION {Range(TreeIds(item.children)) : item \in {i \in Range(c.data) : i.id = id}}
      ids == SelectSeq(TreeIds(c.data), LAMBDA e : e = id \/ e \in kids)
  IN [c EXCEPT
        !.domPopups[p].checked = IF checked THEN @ \cup {id} ELSE @ \ {id},
        !.selectedValues = IF checked
                           THEN @ \o SelectSeq(ids, LAMBDA e : e \notin Range(c.selectedValues))
                           ELSE SelectSeq(@, LAMBDA e : e \notin Range(ids))]

\* the popup's change handler: the browser has flipped the checkbox of id in popup p, and the
\* handler adds id to selectedValues when the box is now checked and deletes it otherwise
ChangeHandler(c, p, id) ==
  LET checked == id \notin c.domPopups[p].checked
  IN [c EXCEPT
        !.domPopups[p].checked = IF checked THEN @ \cup {id} ELSE @ \ {id},
        !.selectedValues = IF checked THEN SetAdd(@, id) ELSE SetDelete(@, id)]

\* the change handler for a checkbox r of popup p whose id an earlier checkbox carries too
ChangeHandlerLater(c, p, r) ==
  LET flipped == [r EXCEPT !.checked = ~r.checked]
  IN [c EXCEPT
        !.domPopups[p].later = (@ \ {r}) \cup {flipped},
        !.selectedValues = IF flipped.checked THEN SetAdd(@, r.id) ELSE SetDelete(@, r.id)]

\* change handler of a popup: the checkbox of item id in popup p was clicked
CheckboxChange(p, id) ==
  /\ p \in 1..Len(domPopups)
  /\ id \in domPopups[p].boxes /\ id # <<>>
  /\ Bound => Len(pendingWrites) < MaxPending
  /\ LET c1 == ChangeHandler(Ctl, p, id)
         c2 == UpdateFieldValue(c1, Bound)
     IN Commit(IF c2.rendered THEN AttachEventListeners(c2) ELSE c2)
  /\ UNCHANGED <<fvars, ivars, witInputs, hostField, layout, host, now, other, loadsStarted, pendingLoads>>

\* the checkbox in row `row` of popup p, a repeated id, was clicked
LaterCheckboxChange(p, row) ==
  /\ p \in 1..Len(domPopups)
  /\ Bound => Len(pendingWrites) < MaxPending
  /\ \E r \in domPopups[p].later :
       /\ r.row = row /\ r.id # <<>>
       /\ LET c2 == UpdateFieldValue(ChangeHandlerLater(Ctl, p, r), Bound)
          IN Commit(IF c2.rendered THEN AttachEventListeners(c2) ELSE c2)
  /\ UNCHANGED <<fvars, ivars, witInputs, hostField, layout, host, now, other, loadsStarted, pendingLoads>>

\* click on the remove button of the chip of id; the click then reaches the document
RemoveButton(id) ==
  /\ rendered
  /\ id \in Range(selectedValues) /\ id # <<>>
  /\ Bound => Len(pendingWrites) < MaxPending
  /\ LET c1 == [Ctl EXCEPT !.selectedValues = SetDelete(@, id)]
         c3 == DocumentClickHandler(Render(UpdateFieldValue(c1, Bound), layout))
     IN /\ WithinBounds(c3)
        /\ Commit(c3)
  /\ other' = DocumentClickHandler(other)
  /\ UNCHANGED <<fvars, ivars, witInputs, hostField, layout, host, now, loadsStarted, pendingLoads>>

\* click on the element with data-action="toggle-tree"
ToggleTreeVisibility ==
  /\ rendered
  /\ LET c1 == [Ctl EXCEPT !.treeVisible = ~@]
         c2 == IF c1.treeVisible THEN ShowTreePopup(c1, layout) ELSE HideTreePopup(c1)
     IN /\ WithinBounds(c2)
        /\ Commit(c2)
  /\ UNCHANGED <<fvars, ivars, witInputs, hostField, layout, host, now, other, loadsStarted, pendingLoads>>

\* click on the expand button of item id in popup p
ToggleExpanded(p, id) ==
  /\ p \in 1..Len(domPopups)
  /\ id \in domPopups[p].buttons /\ id # <<>>
  /\ LET c == Ctl
     IN IF ~c.popupActive THEN Commit(c)
        ELSE IF c.popupRef = 0 THEN Commit([c EXCEPT !.popupActive = FALSE])
        ELSE LET c1 == [c EXCEPT !.expandedItems =
                           IF id \in @ THEN @ \ {id} ELSE @ \cup {id}]
             IN Commit([c1 EXCEPT !.domPopups[c.popupRef] = RenderTreeItems(c1)])
  /\ UNCHANGED <<fvars, ivars, witInputs, hostField, layout, host, now, other, loadsStarted, pendingLoads>>

\* click on the backdrop of a popup; the click then reaches the document
BackdropClick ==
  /\ Len(domPopups) > 0
  /\ Commit(DocumentClickHandler(HideTreePopup(Ctl)))
  /\ other' = DocumentClickHandler(other)
  /\ UNCHANGED <<fvars, ivars, witInputs, hostField, layout, host, now, loadsStarted, pendingLoads>>

\* click with the mouse on the page outside the controls and their popups
OutsideClick ==
  /\ rendered
  /\ Commit(DocumentClickHandler(Ctl))
  /\ other' = DocumentClickHandler(other)
  /\ UNCHANGED <<fvars, ivars, witInputs, hostField, layout, host, now, loadsStarted, pendingLoads>>

\* time passes
Tick ==
  /\ now < MaxClock
  /\ now' = now + TickLength
  /\ UNCHANGED <<fvars, ivars, witInputs, hostField, layout, host, other, data, configuration,
                 selectedValues, expandedItems, treeVisible, popupActive, rendered, popupRef,
                 domPopups, placement, loadsStarted, pendingLoads, pendingWrites, fieldName,
                 workItemFormService, notified, popupCreatedTime, documentListeners>>

\* the host applies the oldest outstanding setFieldValue
HostSetFieldValue ==
  /\ pendingWrites # <<>>
  /\ hostField' = Head(pendingWrites)
  /\ pendingWrites' = Tail(pendingWrites)
  /\ UNCHANGED <<fvars, ivars, witInputs, layout, data, configuration, selectedValues, expandedItems,
                 treeVisible, popupActive, rendered, popupRef, domPopups, placement,
                 loadsStarted, pendingLoads, host, fieldName, workItemFormService, notified,
                 now, popupCreatedTime, documentListeners, other>>

\* the host turns down the oldest outstanding setFieldValue; updateFieldValue logs the error
HostRejectsFieldValue ==
  /\ pendingWrites # <<>>
  /\ pendingWrites' = Tail(pendingWrites)
  /\ UNCHANGED <<fvars, ivars, witInputs, hostField, layout, data, configuration, selectedValues,
                 expandedItems, treeVisible, popupActive, rendered, popupRef, domPopups,
                 placement, loadsStarted, pendingLoads, host, fieldName, workItemFormService,
                 notified, now, popupCreatedTime, documentListeners, other>>

\* scrolling or resizing changes the measurements the next showTreePopup reads
Relayout ==
  /\ layout' \in Layouts
  /\ UNCHANGED <<fvars, ivars, witInputs, hostField, data, configuration, selectedValues, expandedItems,
                 treeVisible, popupActive, rendered, popupRef, domPopups, placement,
                 loadsStarted, pendingLoads, pendingWrites, host, fieldName,
                 workItemFormService, notified, now, popupCreatedTime, documentListeners, other>>

-----------------------------------------------------------------------------
(* Identity controls: values and text conversions *)

Undefined == <<"undefined">>     \* the JavaScript value undefined; no text is this one-element sequence
Truthy(v) == v # Undefined /\ v # <<>>
OrElse(a, b) == IF Truthy(a) THEN a ELSE b       \* a || b

\* ${v} inside a template literal
Show(v) == IF v = Undefined THEN <<"u", "n", "d", "e", "f", "i", "n", "e", "d">> ELSE v

UpperCase == <<"A", "B", "C", "D", "E", "F", "G", "H", "I", "J", "K", "L", "M",
               "N", "O", "P", "Q", "R", "S", "T", "U", "V", "W", "X", "Y", "Z">>
LowerCase == <<"a", "b", "c", "d", "e", "f", "g", "h", "i", "j", "k", "l", "m",
               "n", "o", "p", "q", "r", "s", "t", "u", "v", "w", "x", "y", "z">>
LowerChar(ch) ==
  IF \E k \in DOMAIN UpperCase : UpperCase[k] = ch
  THEN LowerCase[CHOOSE k \in DOMAIN UpperCase : UpperCase[k] = ch] ELSE ch
\* String.prototype.toLowerCase
ToLowerCase(s) == [k \in 1..Len(s) |-> LowerChar(s[k])]

Digits == <<"0", "1", "2", "3", "4", "5", "6", "7", "8", "9">>
DigitValue(ch) == (CHOOSE k \in DOMAIN Digits : Digits[k] = ch) - 1
\* a JavaScript number that may be NaN
Number(n) == [nan |-> FALSE, value |-> n]
NaN == [nan |-> TRUE, value |-> 0]
RECURSIVE ParseDigits(_, _)
ParseDigits(s, acc) ==
  IF s = <<>> \/ Head(s) \notin Range(Digits) THEN acc
  ELSE ParseDigits(Tail(s), acc * 10 + DigitValue(Head(s)))
\* parseInt of an unsigned text: the value of the leading digits, NaN when there is none
ParseInt(s) ==
  LET t == TrimStart(s)
  IN IF t = <<>> \/ Head(t) \notin Range(Digits) THEN NaN ELSE Number(ParseDigits(t, 0))
\* length >= max, false when max is NaN
AtLeast(length, max) == ~max.nan /\ length >= max.value

Identity(i, d, u) == [id |-> i, displayName |-> d, uniqueName |-> u]

IsLineBreak(ch) == ch \in {"\n", "\r"}

\* the first position after i that holds no white space, Len(s) + 1 when there is none
NextNonSpace(s, i) ==
  LET rest == {k \in i + 1..Len(s) : ~IsSpace(s[k])}
  IN IF rest = {} THEN Len(s) + 1 ELSE CHOOSE k \in rest : \A m \in rest : k <= m

\* /^(.+?)\s*<(.+?)>$/ matches s with the first group ending at position i
IdentityStringMatchAt(s, i) ==
  LET p == NextNonSpace(s, i)
      n == Len(s)
  IN /\ p <= n - 2 /\ s[p] = "<" /\ s[n] = ">"
     /\ \A k \in (1..i) \cup (p + 1..n - 1) : ~IsLineBreak(s[k])

\* parseIdentityString of IdentityMultiSelect.ts
ParseIdentityString(s) ==
  LET ends == {i \in 1..Len(s) : IdentityStringMatchAt(s, i)}
  IN IF ends # {}
     THEN LET i == CHOOSE e \in ends : \A m \in ends : e <= m
              email == SubSeq(s, NextNonSpace(s, i) + 1, Len(s) - 1)
          IN Identity(email, Trim(SubSeq(s, 1, i)), Trim(email))
     ELSE IF "@" \in Range(s) THEN Identity(s, Split(s, {"@"})[1], s)
     ELSE Identity(s, s, s)

\* value.split(/\r?\n/)
SplitLines(s) ==
  LET parts == Split(s, {"\n"})
  IN [k \in 1..Len(parts) |->
        IF k < Len(parts) /\ parts[k] # <<>> /\ parts[k][Len(parts[k])] = "\r"
        THEN SubSeq(parts[k], 1, Len(parts[k]) - 1) ELSE parts[k]]

NonBlank(parts) == SelectSeq(parts, LAMBDA v : Trim(v) # <<>>)

\* /^(.*?)\s*<([^>]+)>$/ matches s with the first group ending at position i
DisplayNameMatchAt(s, i) ==
  LET p == NextNonSpace(s, i)
      n == Len(s)
  IN /\ p <= n - 2 /\ s[p] = "<" /\ s[n] = ">"
     /\ \A k \in 1..i : ~IsLineBreak(s[k])
     /\ \A k \in p + 1..n - 1 : s[k] # ">"

ParseDisplayNamePart(part) ==
  LET ends == {i \in 0..Len(part) : DisplayNameMatchAt(part, i)}
  IN IF ends # {}
     THEN LET i == CHOOSE e \in ends : \A m \in ends : e <= m
              uniqueName == Trim(SubSeq(part, NextNonSpace(part, i) + 1, Len(part) - 1))
          IN Identity(uniqueName, Trim(SubSeq(part, 1, i)), uniqueName)
     ELSE Identity(part, part, part)

\* parseDisplayNameFormat
ParseDisplayNameFormat(value) ==
  LET parts == NonEmpty(MapTrim(Split(value, {";", ","})))
  IN [k \in 1..Len(parts) |-> ParseDisplayNamePart(parts[k])]

\* `${identity.displayName} <${identity.uniqueName}>`
IdentityToken(identity) ==
  Show(identity.displayName) \o <<" ", "<">> \o Show(identity.uniqueName) \o <<">">>

IdentityTokens(list) == [k \in 1..Len(list) |-> IdentityToken(list[k])]

\* getCurrentFieldValue, and the value updateFieldValue hands to setFieldValue
GetCurrentFieldValue(list) == IF Len(list) = 0 THEN <<>> ELSE Join(IdentityTokens(list), <<"\n">>)

\* the value updateStorageField hands to setFieldValue
StorageFieldValue(list) == Join(IdentityTokens(list), <<"\n">>)

-----------------------------------------------------------------------------
(* Identity control: the gate of additions *)

IsDuplicate(list, identity) ==
  \E k \in 1..Len(list) :
    LET i == list[k]
    IN \/ i.id = identity.id
       \/ i.uniqueName = identity.uniqueName
       \/ /\ Truthy(i.uniqueName) /\ Truthy(identity.uniqueName)
          /\ ToLowerCase(i.uniqueName) = ToLowerCase(identity.uniqueName)
       \/ /\ i.displayName = identity.displayName
          /\ ToLowerCase(i.displayName) = ToLowerCase(identity.displayName)

\* the gate with the comparison of lower-cased unique names left out
AddIdentityIfNotExists_ExactNames(list, identity, max) ==
  IF \E k \in 1..Len(list) :
       \/ list[k].id = identity.id
       \/ list[k].uniqueName = identity.uniqueName
       \/ list[k].displayName = identity.displayName
  THEN [list |-> list, added |-> FALSE, message |-> FALSE]
  ELSE IF AtLeast(Len(list), max) THEN [list |-> list, added |-> FALSE, message |-> TRUE]
  ELSE [list |-> Append(list, identity), added |-> TRUE, message |-> FALSE]

\* the gate with the capacity test ahead of the duplicate test
AddIdentityIfNotExists_CapacityFirst(list, identity, max) ==
  IF AtLeast(Len(list), max) THEN [list |-> list, added |-> FALSE, message |-> TRUE]
  ELSE IF IsDuplicate(list, identity) THEN [list |-> list, added |-> FALSE, message |-> FALSE]
  ELSE [list |-> Append(list, identity), added |-> TRUE, message |-> FALSE]

\* addIdentityIfNotExists: the list afterwards, the value returned, whether showMessage ran
AddIdentityIfNotExists(list, identity, max) ==
  IF IsDuplicate(list, identity) THEN [list |-> list, added |-> FALSE, message |-> FALSE]
  ELSE IF AtLeast(Len(list), max) THEN [list |-> list, added |-> FALSE, message |-> TRUE]
  ELSE [list |-> Append(list, identity), added |-> TRUE, message |-> FALSE]

RECURSIVE AddEach(_, _, _)
\* identities.forEach(identity => this.addIdentityIfNotExists(identity)), counting the additions
AddEach(list, identities, max) ==
  IF Len(identities) = 0 THEN [list |-> list, added |-> 0, message |-> FALSE]
  ELSE LET r == AddIdentityIfNotExists(list, Head(identities), max)
           rest == AddEach(r.list, Tail(identities), max)
       IN [list |-> rest.list, added |-> rest.added + (IF r.added THEN 1 ELSE 0),
           message |-> r.message \/ rest.message]

\* a decode that splits on ';' and ',' whether or not the value has line breaks
DecodedIdentities_DelimitersAlways(value) ==
  LET identityStrings == NonBlank(Split(value, {";", ",", "\n"}))
  IN [k \in 1..Len(identityStrings) |-> ParseIdentityString(Trim(identityStrings[k]))]

\* the identities parseFieldValue reads from a stored value, one per non-blank token
DecodedIdentities(value) ==
  LET identityStrings ==
        IF "\n" \in Range(value) THEN NonBlank(SplitLines(value))
        ELSE NonBlank(Split(value, {";", ","}))
  IN [k \in 1..Len(identityStrings) |-> ParseIdentityString(Trim(identityStrings[k]))]

\* parseFieldValue
ParseFieldValue(list, value, max) ==
  IF ~Truthy(value) THEN [list |-> list, added |-> 0, message |-> FALSE]
  ELSE AddEach(list, DecodedIdentities(value), max)

-----------------------------------------------------------------------------
(* Identity control: environment *)

MaxTimers == 1

ann_mail == <<"a", "@", "x">>
ann_MAIL == <<"A", "@", "X">>
carl_mail == <<"c", "@", "x">>
doe_mail == <<"d", "@", "x">>
doe_name == <<"D", ",", "E">>
eve_mail == <<"e", "@", "x">>

\* entries of the directory a picker offers: entityId/id, displayName, uniqueName (a group has none)
Directory ==
  { Identity(<<"1">>, <<"A">>, ann_mail),
    Identity(<<"2">>, <<"B">>, ann_MAIL),
    Identity(<<"4">>, <<"G">>, Undefined) }

\* "A <a@x>" and the like
Token(name, mail) == name \o <<" ", "<">> \o mail \o <<">">>

\* values a previous session or another client left in the storage field
StoredValues ==
  { <<>>,
    Token(<<"A">>, ann_mail) \o <<"\n">> \o Token(<<"B">>, ann_MAIL),
    Token(<<"A">>, ann_mail) \o <<";">> \o Token(<<"C">>, carl_mail) }

\* a value of the identity source field: nothing, a text, or an identity object
NullValue == [kind |-> "null", text |-> <<>>, id |-> Undefined, displayName |-> Undefined, uniqueName |-> Undefined]
TextValue(t) == [NullValue EXCEPT !.kind = "string", !.text = t]
ObjectValue(i, d, u) == [kind |-> "object", text |-> <<>>, id |-> i, displayName |-> d, uniqueName |-> u]
ValueTruthy(v) == v.kind = "object" \/ (v.kind = "string" /\ v.text # <<>>)

\* what the user can pick in the identity source field
SourceValues ==
  { TextValue(Token(<<"A">>, eve_mail)), ObjectValue(<<"3">>, doe_name, doe_mail) }

\* what the user can type in the search box
ManualEntries == { Token(<<"A">>, eve_mail) }

IdentityInputs(maxima, separators) == [maxSelections : maxima, separator : separators]

\* the cascading control left as constructed
CascadingIdle ==
  /\ CInit /\ layout = DefaultLayout
  /\ witInputs \in Inputs(TreeCat, FALSE, {";"}, FALSE) /\ hostField = <<>>

IdentityIdle ==
  /\ selectedIdentities = <<>> /\ maxSelections = Number(10) /\ separator = ";"
  /\ phase = "constructed" /\ lastValue = NullValue /\ clearTimers = 0 /\ lastMessage = FALSE
  /\ sourceField = TextValue(<<>>) /\ isReadOnly = FALSE

IdentityInit ==
  /\ CascadingIdle
  /\ idInputs \in IdentityInputs({<<"2">>, Undefined}, {Undefined})
  /\ storageField \in StoredValues
  /\ IdentityIdle

-----------------------------------------------------------------------------
(* Identity control: operations *)

\* parseConfiguration
ParseConfiguration ==
  /\ phase = "constructed"
  /\ phase' = "configured"
  /\ maxSelections' = ParseInt(OrElse(idInputs.maxSelections, <<"1", "0">>))
  /\ separator' = IF idInputs.separator \in {<<"c", "o", "m", "m", "a">>, <<",">>} THEN "," ELSE ";"
  /\ lastMessage' = FALSE
  /\ UNCHANGED <<fvars, cvars, idInputs, isReadOnly, storageField, sourceField, selectedIdentities, lastValue, clearTimers>>

\* loadFieldValue, called by initializeControl and, when the form service comes from
\* VSS.require, once before by tryAlternativeServiceMethods; it ends by asking the form
\* service whether the field is read-only
LoadFieldValue ==
  /\ phase \in {"configured", "loaded"}
  /\ \E viaAlternative \in BOOLEAN :
       phase' = IF phase = "configured" /\ viaAlternative THEN "loaded" ELSE "ready"
  /\ LET r == ParseFieldValue(selectedIdentities, storageField, maxSelections)
     IN selectedIdentities' = r.list /\ lastMessage' = r.message
  /\ isReadOnly' \in BOOLEAN
  /\ UNCHANGED <<fvars, cvars, idInputs, storageField, sourceField, maxSelections, separator, lastValue, clearTimers>>

\* the normalizedIdentity onIdentitySelected builds from a directory entry
NormalizedIdentity(identity) ==
  Identity(OrElse(identity.id, identity.uniqueName), identity.displayName, identity.uniqueName)

\* onIdentitySelected, the handler of a picked directory entry; the picker attaches its
\* handlers only when the field is not read-only
OnIdentitySelected(identity) ==
  /\ phase = "ready" /\ ~isReadOnly
  /\ LET r == AddIdentityIfNotExists(selectedIdentities, NormalizedIdentity(identity), maxSelections)
     IN /\ selectedIdentities' = r.list
        /\ lastMessage' = r.message
        /\ storageField' = IF r.added THEN GetCurrentFieldValue(r.list) ELSE storageField
  /\ UNCHANGED <<fvars, cvars, idInputs, isReadOnly, sourceField, maxSelections, separator, phase, lastValue, clearTimers>>

\* removeIdentity, from the remove button of a selected identity; updateSelectedDisplay
\* renders the buttons only when the field is not read-only
RemoveIdentity(identityId) ==
  /\ phase = "ready" /\ ~isReadOnly
  /\ \E k \in 1..Len(selectedIdentities) : Show(selectedIdentities[k].id) = identityId
  /\ selectedIdentities' = SelectSeq(selectedIdentities, LAMBDA i : i.id # identityId)
  /\ storageField' = GetCurrentFieldValue(selectedIdentities')
  /\ lastMessage' = FALSE
  /\ UNCHANGED <<fvars, cvars, idInputs, isReadOnly, sourceField, maxSelections, separator, phase, lastValue, clearTimers>>

\* the identities handleIdentitySourceFieldChange reads from the value of the source field
SourceIdentities(newValue) ==
  IF newValue.kind = "string"
  THEN LET v == newValue.text
       IN IF "<" \in Range(v) /\ ">" \in Range(v) THEN ParseDisplayNameFormat(v)
          ELSE IF "@" \in Range(v) THEN <<Identity(v, Split(v, {"@"})[1], v)>>
          ELSE <<Identity(v, v, v)>>
  ELSE IF Truthy(newValue.displayName) \/ Truthy(newValue.uniqueName)
  THEN <<Identity(OrElse(newValue.id, OrElse(newValue.uniqueName, newValue.displayName)),
                  OrElse(newValue.displayName, newValue.uniqueName),
                  OrElse(newValue.uniqueName, newValue.displayName))>>
  ELSE LET stringValue == <<"[", "o", "b", "j", "e", "c", "t", " ", "O", "b", "j", "e", "c", "t", "]">>
       IN <<Identity(stringValue, stringValue, stringValue)>>

\* checkFieldValue of startFieldMonitoring, with handleIdentitySourceFieldChange when the
\* source field holds a new value
CheckFieldValue ==
  /\ phase = "ready"
  /\ IF ValueTruthy(sourceField) /\ (sourceField.kind = "object" \/ sourceField # lastValue)
     THEN LET r == AddEach(selectedIdentities, SourceIdentities(sourceField), maxSelections)
          IN /\ clearTimers < MaxTimers
             /\ lastValue' = sourceField
             /\ selectedIdentities' = r.list
             /\ lastMessage' = r.message
             /\ storageField' = IF r.added > 0 THEN StorageFieldValue(r.list) ELSE storageField
             /\ clearTimers' = clearTimers + 1
     ELSE /\ lastValue' = IF ~ValueTruthy(sourceField) /\ ValueTruthy(lastValue) THEN sourceField ELSE lastValue
          /\ lastMessage' = FALSE
          /\ UNCHANGED <<selectedIdentities, storageField, clearTimers>>
  /\ UNCHANGED <<fvars, cvars, idInputs, isReadOnly, sourceField, maxSelections, separator, phase>>

\* the timer of handleIdentitySourceFieldChange empties the identity source field
ClearSourceField ==
  /\ clearTimers > 0
  /\ clearTimers' = clearTimers - 1
  /\ sourceField' = TextValue(<<>>)
  /\ UNCHANGED <<fvars, cvars, idInputs, isReadOnly, storageField, selectedIdentities, maxSelections, separator,
                 phase, lastValue, lastMessage>>

\* the user picks somebody in the identity source field of the form
UserPicksSource(value) ==
  /\ phase = "ready"
  /\ sourceField' = value
  /\ UNCHANGED <<fvars, cvars, idInputs, isReadOnly, storageField, selectedIdentities, maxSelections, separator,
                 phase, lastValue, clearTimers, lastMessage>>

\* addManualIdentity, from Enter in the search box, which is disabled on a read-only field
AddManualIdentity(value) ==
  /\ phase = "ready" /\ ~isReadOnly
  /\ LET identities == ParseDisplayNameFormat(value)
         r == AddEach(selectedIdentities, identities, maxSelections)
     IN /\ Len(identities) > 0
        /\ selectedIdentities' = r.list
        /\ lastMessage' = r.message
        /\ storageField' = GetCurrentFieldValue(r.list)
  /\ UNCHANGED <<fvars, cvars, idInputs, isReadOnly, sourceField, maxSelections, separator, phase, lastValue, clearTimers>>

\* setFieldValueFromExternal, the setValue of the registered control object
SetFieldValueFromExternal(value) ==
  /\ phase = "ready"
  /\ LET r == ParseFieldValue(<<>>, value, maxSelections)
     IN selectedIdentities' = r.list /\ lastMessage' = r.message
  /\ UNCHANGED <<fvars, cvars, idInputs, isReadOnly, storageField, sourceField, maxSelections, separator, phase,
                 lastValue, clearTimers>>

\* ids the remove buttons of the identity controls can carry
IdentityIds == {<<"1">>, <<"2">>, <<"3">>, <<"4">>, ann_mail, ann_MAIL, carl_mail, doe_mail, eve_mail}

\* values the host passes to setValue: the value of the field, or the value getValue just returned
ExternalValues == {storageField, GetCurrentFieldValue(selectedIdentities)}

IdentityNext ==
  \/ ParseConfiguration
  \/ LoadFieldValue
  \/ \E identity \in Directory : OnIdentitySelected(identity)
  \/ \E identityId \in IdentityIds : RemoveIdentity(identityId)
  \/ CheckFieldValue
  \/ ClearSourceField
  \/ \E value \in SourceValues : UserPicksSource(value)
  \/ \E value \in ManualEntries : AddManualIdentity(value)
  \/ \E value \in ExternalValues : SetFieldValueFromExternal(value)

-----------------------------------------------------------------------------
(* The earlier identity control (src/unnamed/part_002): same fields, no gate *)

\* entries of allIdentities, offered by the search dropdown
EarlierDirectory ==
  { Identity(ann_mail, <<"A">>, ann_mail),
    Identity(<<"1">>, <<"A">>, ann_mail),
    Identity(carl_mail, <<"C">>, carl_mail) }

\* parseIdentityString of the earlier control
EarlierParseIdentityString(s) ==
  LET ends == {i \in 1..Len(s) : IdentityStringMatchAt(s, i)}
  IN IF ends # {}
     THEN LET i == CHOOSE e \in ends : \A m \in ends : e <= m
              email == SubSeq(s, NextNonSpace(s, i) + 1, Len(s) - 1)
          IN Identity(email, Trim(SubSeq(s, 1, i)), Trim(email))
     ELSE IF "@" \in Range(s) THEN Identity(s, Split(s, {"@"})[1], s)
     ELSE Identity(s, s, s)

\* parseFieldValue of the earlier control: every parsed identity is pushed
EarlierParseFieldValue(list, value) ==
  IF ~Truthy(value) THEN list
  ELSE LET identityStrings == NonBlank(Split(value, {";", ","}))
       IN list \o [k \in 1..Len(identityStrings) |-> EarlierParseIdentityString(Trim(identityStrings[k]))]

\* the value updateFieldValue of the earlier control hands to setFieldValue
EarlierFieldValue(list, sep) ==
  IF Len(list) = 0 THEN <<>>
  ELSE Join(IdentityTokens(list), IF sep = "," THEN <<",", " ">> ELSE <<";", " ">>)

EarlierInit ==
  /\ CascadingIdle
  /\ idInputs \in IdentityInputs({<<"1">>, <<"2">>, Undefined}, {Undefined, <<",">>})
  /\ storageField \in StoredValues \ {Token(<<"A">>, ann_mail) \o <<"\n">> \o Token(<<"B">>, ann_MAIL)}
  /\ IdentityIdle

\* parseConfiguration of the earlier control
EarlierParseConfiguration ==
  /\ phase = "constructed"
  /\ phase' = "configured"
  /\ maxSelections' = ParseInt(OrElse(idInputs.maxSelections, <<"1", "0">>))
  /\ separator' = IF idInputs.separator \in {<<"c", "o", "m", "m", "a">>, <<",">>} THEN "," ELSE ";"
  /\ UNCHANGED <<fvars, cvars, idInputs, isReadOnly, storageField, sourceField, selectedIdentities, lastValue,
                 clearTimers, lastMessage>>

\* loadFieldValue of the earlier control
EarlierLoadFieldValue ==
  /\ phase = "configured"
  /\ phase' = "ready"
  /\ selectedIdentities' = EarlierParseFieldValue(selectedIdentities, storageField)
  /\ UNCHANGED <<fvars, cvars, idInputs, isReadOnly, storageField, sourceField, maxSelections, separator, lastValue,
                 clearTimers, lastMessage>>

\* selectIdentity, the click on an entry of the search dropdown
SelectIdentity(identity) ==
  /\ phase = "ready"
  /\ IF \E k \in 1..Len(selectedIdentities) : selectedIdentities[k].id = identity.id
     THEN lastMessage' = FALSE /\ UNCHANGED <<selectedIdentities, storageField>>
     ELSE IF AtLeast(Len(selectedIdentities), maxSelections)
     THEN lastMessage' = TRUE /\ UNCHANGED <<selectedIdentities, storageField>>
     ELSE /\ selectedIdentities' = Append(selectedIdentities, identity)
          /\ storageField' = EarlierFieldValue(selectedIdentities', separator)
          /\ lastMessage' = FALSE
  /\ UNCHANGED <<fvars, cvars, idInputs, isReadOnly, sourceField, maxSelections, separator, phase, lastValue, clearTimers>>

\* removeIdentity of the earlier control
EarlierRemoveIdentity(identityId) ==
  /\ phase = "ready"
  /\ \E k \in 1..Len(selectedIdentities) : selectedIdentities[k].id = identityId
  /\ selectedIdentities' = SelectSeq(selectedIdentities, LAMBDA i : i.id # identityId)
  /\ storageField' = EarlierFieldValue(selectedIdentities', separator)
  /\ lastMessage' = FALSE
  /\ UNCHANGED <<fvars, cvars, idInputs, isReadOnly, sourceField, maxSelections, separator, phase, lastValue, clearTimers>>

\* setFieldValueFromExternal of the earlier control
EarlierSetFieldValueFromExternal(value) ==
  /\ phase = "ready"
  /\ selectedIdentities' = EarlierParseFieldValue(<<>>, value)
  /\ lastMessage' = FALSE
  /\ UNCHANGED <<fvars, cvars, idInputs, isReadOnly, storageField, sourceField, maxSelections, separator, phase,
                 lastValue, clearTimers>>

EarlierNext ==
  \/ EarlierParseConfiguration
  \/ EarlierLoadFieldValue
  \/ \E identity \in EarlierDirectory : SelectIdentity(identity)
  \/ \E identityId \in IdentityIds : EarlierRemoveIdentity(identityId)
  \/ \E value \in StoredValues : EarlierSetFieldValueFromExternal(value)

-----------------------------------------------------------------------------
(* The specifications *)

AllIds == UNION {Range(TreeIds(t)) : t \in Trees}

IdentityUnused == IdentityIdle /\ idInputs = [maxSelections |-> Undefined, separator |-> Undefined] /\ storageField = <<>>

Init == CInit /\ layout = DefaultLayout /\ IdentityUnused

Next ==
  \/ LoadConfiguration
  \/ LoadCurrentValue
  \/ \E p \in 1..MaxPopups + 1, id \in AllIds : CheckboxChange(p, id)
  \/ \E id \in AllIds \cup {id_ghost} : RemoveButton(id)
  \/ ToggleTreeVisibility
  \/ \E p \in 1..MaxPopups + 1, id \in AllIds : ToggleExpanded(p, id)
  \/ BackdropClick
  \/ HostSetFieldValue
  \/ HostRejectsFieldValue

vars == <<cvars, ivars, fvars>>

Spec == Init /\ [][Next]_vars

\* Placement is explored with every layout, on one configuration
PlacementInit ==
  /\ CInit
  /\ witInputs \in Inputs(TreeCat, FALSE, {";"}, FALSE)
  /\ layout \in Layouts
  /\ IdentityUnused

PlacementNext ==
  \/ LoadConfiguration
  \/ ToggleTreeVisibility
  \/ BackdropClick
  \/ Relayout

SpecPlacement == PlacementInit /\ [][PlacementNext]_vars

SpecIdentity == IdentityInit /\ [][IdentityNext]_vars

SpecEarlier == EarlierInit /\ [][EarlierNext]_vars

-----------------------------------------------------------------------------
(* Properties of the cascading control *)

TreeIdSet == Range(TreeIds(data))
Separator == configuration.multiSelectSeparator

\* what loadCurrentValue makes of a field value
Decoded(value, sep) == IF value # <<>> THEN LoadedValues(value, sep) ELSE <<>>

\* an id that survives the codec: not empty, no surrounding white space, free of the separator
CleanId(id, sep) == id # <<>> /\ Trim(id) = id /\ sep \notin Range(id)

\* C1 as stated: for every selection S of ids of the current tree and either delimiter,
\* decoding the encoding of S gives back exactly S.
C1_RoundTripAnyIds ==
  (rendered /\ Range(selectedValues) \subseteq TreeIdSet)
    => Range(Decoded(EncodeValue(selectedValues, Separator), Separator)) = Range(selectedValues)

\* C1 amended: the round trip holds for every selection S of ids of the current tree
\* whose ids are not empty, carry no leading or trailing white space and do not contain
\* the delimiter.
C1_RoundTripCleanIds ==
  (/\ rendered
   /\ Range(selectedValues) \subseteq TreeIdSet
   /\ \A id \in Range(selectedValues) : CleanId(id, Separator))
    => Decoded(EncodeValue(selectedValues, Separator), Separator) = selectedValues

\* two clean ids were selected with ',' as delimiter, written, applied by the host and are
\* what a load of the field now decodes
C1_Witness ==
  /\ rendered /\ Separator = "," /\ Len(selectedValues) = 2
  /\ Range(selectedValues) \subseteq TreeIdSet
  /\ \A id \in Range(selectedValues) : CleanId(id, ",")
  /\ pendingWrites = <<>> /\ hostField = EncodeValue(selectedValues, ",")
  /\ Decoded(hostField, ",") = selectedValues

\* C2 as stated: a select toggle flips the membership of the toggled id in the selection
\* and leaves the membership of every other id as it was.
C2_ToggleFlipsMembership ==
  [][\A p \in 1..MaxPopups + 1, id \in AllIds :
       CheckboxChange(p, id) =>
         /\ (id \in Range(selectedValues')) # (id \in Range(selectedValues))
         /\ Range(selectedValues') \ {id} = Range(selectedValues) \ {id}]_vars

\* C5 as stated: every selected id is the id of a node of the current tree.
C5_SelectedInTree == rendered => Range(selectedValues) \subseteq TreeIdSet

\* C6 as stated: with parentSelectMode off the selection holds no id of a node with children.
C6_LeafOnly ==
  (rendered /\ ~configuration.parentSelectMode)
    => Range(selectedValues) \cap ContainerIds(data) = {}

\* the ids of the tree that are selected, in traversal order
InTreeOrder(selected, items) == SelectSeq(TreeIds(items), LAMBDA id : id \in Range(selected))

\* C9 as stated: every value handed to setFieldValue lists the selected ids in tree
\* traversal order, whatever the order of selection.
C9_EncodeInTreeOrder ==
  [][(Len(pendingWrites') > Len(pendingWrites) /\ Range(selectedValues') \subseteq TreeIdSet)
       => pendingWrites'[Len(pendingWrites')] = Join(InTreeOrder(selectedValues', data), <<Separator>>)]_vars

\* C7: showTreePopup puts the panel above the trigger iff spaceAbove > spaceBelow and
\* spaceAbove > 50 (spaceBelow = V - (bottom + 4), spaceAbove = top - 10), otherwise below
\* at bottom + 4; the trigger {top 500, bottom 520} in a viewport 600 high gets the panel
\* above with height 300.
C7_SideChoice ==
  placement.side # "none" =>
    LET l == placement.at
        V == ViewportHeight(l)
        spaceBelow == V - (l.bottom + 4)
        spaceAbove == l.top - 10
    IN /\ (placement.side = "above") <=> (spaceAbove > spaceBelow /\ spaceAbove > 50)
       /\ placement.side = "below" => placement.top = l.bottom + 4
       /\ (l.top = 500 /\ l.bottom = 520 /\ V = 600)
            => (placement.side = "above" /\ placement.maxHeight = 300)

\* the popup was opened for the trigger {top 500, bottom 520} in a viewport 600 high
C7_Witness ==
  /\ popupActive /\ placement.side = "above" /\ placement.maxHeight = 300
  /\ placement.at.top = 500 /\ placement.at.bottom = 520 /\ ViewportHeight(placement.at) = 600

-----------------------------------------------------------------------------
(* Properties of the identity controls *)

\* C3: no two entries of selectedIdentities have unique names that are equal ignoring
\* case, whatever the add path (picker, poller, manual entry, decoding a stored value).
C3_UniqueNamesDifferIgnoringCase ==
  \A j, k \in 1..Len(selectedIdentities) :
    j # k => ToLowerCase(selectedIdentities[j].uniqueName) # ToLowerCase(selectedIdentities[k].uniqueName)

\* a stored value naming a@x and A@X has been decoded into a single entry
C3_Witness ==
  /\ phase = "ready"
  /\ storageField = Token(<<"A">>, ann_mail) \o <<"\n">> \o Token(<<"B">>, ann_MAIL)
  /\ Len(selectedIdentities) = 1
  /\ selectedIdentities[1].uniqueName = ann_mail

\* a step of checkFieldValue that ran handleIdentitySourceFieldChange
HandlesSourceChange == CheckFieldValue /\ clearTimers' = clearTimers + 1

AtCapacity == AtLeast(Len(selectedIdentities), maxSelections)

Names(list) == [k \in 1..Len(list) |-> <<list[k].displayName, list[k].uniqueName>>]

\* C8 as stated: decoding the value the control emits for its list of selected
\* identities reproduces the list: as many entries, the same display name and unique
\* name per entry, the same order (lists whose names are all present).
C8_CodecSymmetry ==
  (/\ phase = "ready"
   /\ \A k \in 1..Len(selectedIdentities) :
        Truthy(selectedIdentities[k].displayName) /\ Truthy(selectedIdentities[k].uniqueName))
    => Names(ParseFieldValue(<<>>, GetCurrentFieldValue(selectedIdentities), maxSelections).list)
         = Names(selectedIdentities)

\* C10 as stated: every entry of selectedIdentities was admitted by addIdentityIfNotExists,
\* that is, it was neither a duplicate of the entries before it nor beyond the capacity;
\* no path appends otherwise.
C10_EveryEntryAdmittedByGate ==
  \A k \in 1..Len(selectedIdentities) :
    AddIdentityIfNotExists(SubSeq(selectedIdentities, 1, k - 1), selectedIdentities[k], maxSelections).added

\* the duplicate test in three tiers: equal ids, or unique names equal ignoring case, or,
\* when neither side has a unique name, display names equal ignoring case
ThreeTierDuplicate(list, identity) ==
  \E k \in 1..Len(list) :
    LET i == list[k]
    IN \/ i.id = identity.id
       \/ /\ Truthy(i.uniqueName) /\ Truthy(identity.uniqueName)
          /\ ToLowerCase(i.uniqueName) = ToLowerCase(identity.uniqueName)
       \/ /\ ~Truthy(i.uniqueName) /\ ~Truthy(identity.uniqueName)
          /\ ToLowerCase(Show(i.displayName)) = ToLowerCase(Show(identity.displayName))

\* C11 as stated: whenever the poller offers candidates to the gate, a candidate is treated
\* as a duplicate of the stored identities iff the three-tier test says so; equal display
\* names alone, with different ids and different unique names, do not make a duplicate.
C11_DuplicateIsThreeTier ==
  (phase = "ready" /\ ValueTruthy(sourceField)) =>
    \A k \in DOMAIN SourceIdentities(sourceField) :
      IsDuplicate(selectedIdentities, SourceIdentities(sourceField)[k])
        <=> ThreeTierDuplicate(selectedIdentities, SourceIdentities(sourceField)[k])

-----------------------------------------------------------------------------
(* Initialization of the cascading control on every host *)

StartupInit ==
  CascadeInit(Configurations \cup BrokenInputs, Hosts) /\ layout = DefaultLayout /\ IdentityUnused

StartupNext ==
  \/ RegistrationFails
  \/ LoadConfiguration
  \/ LoadCurrentValue

\* the constructor calls initializeControl, and the host resolves the promises it is asked for
SpecStartup ==
  /\ StartupInit /\ [][StartupNext]_vars
  /\ WF_vars(RegistrationFails) /\ WF_vars(LoadConfiguration) /\ WF_vars(LoadCurrentValue)

\* C13 as stated: on every initialization path (valid configuration, missing field binding,
\* malformed JSON, missing configuration object, form-service lookup failure, host
\* registration failure) the control eventually is rendered and has called
\* notifyLoadSucceeded, and it never calls notifyLoadFailed.
C13_ReadyOnEveryPath ==
  /\ <>(rendered /\ notified.succeeded > 0)
  /\ [](notified.failed = 0)

\* C15 as stated: once every outstanding setFieldValue call has completed, applied or
\* turned down, the value the host holds is the encoding of the in-memory selection.
C15_MirrorAfterWrites ==
  [][(pendingWrites # <<>> /\ pendingWrites' = <<>>)
       => hostField' = EncodeValue(selectedValues', configuration'.multiSelectSeparator)]_vars

-----------------------------------------------------------------------------
(* A work item form with one control of each kind *)

FormInit ==
  /\ CascadeInit(Inputs(TreePair, TRUE, {";"}, TRUE), {HealthyHost}) /\ layout = DefaultLayout
  /\ idInputs = [maxSelections |-> <<"2">>, separator |-> Undefined]
  /\ storageField = Token(<<"A">>, ann_mail) \o <<"\n">> \o Token(<<"B">>, ann_MAIL)
  /\ IdentityIdle

FormNext ==
  \/ LoadConfiguration
  \/ LoadCurrentValue
  \/ \E p \in 1..MaxPopups + 1, id \in AllIds : CheckboxChange(p, id)
  \/ \E id \in AllIds : RemoveButton(id)
  \/ ToggleTreeVisibility
  \/ HostSetFieldValue
  \/ ParseConfiguration
  \/ LoadFieldValue
  \/ \E identity \in Directory : OnIdentitySelected(identity)
  \/ \E identityId \in IdentityIds : RemoveIdentity(identityId)

SpecForm == FormInit /\ [][FormNext]_vars

\* C14: a checkbox toggle or a chip removal that changes the encoded selection of a control
\* that has its field name and the form service hands the new encoding to setFieldValue in
\* the same handler; picking or removing an identity that changes the encoded list hands
\* the new encoding to setFieldValue in the same handler.
C14_PersistOnChange ==
  [][/\ ( /\ \/ \E p \in 1..MaxPopups + 1, id \in AllIds : CheckboxChange(p, id)
             \/ \E id \in AllIds : RemoveButton(id)
          /\ Bound
          /\ EncodeValue(selectedValues', Separator) # EncodeValue(selectedValues, Separator) )
        => pendingWrites' = Append(pendingWrites, EncodeValue(selectedValues', Separator))
     /\ ( /\ \/ \E identity \in Directory : OnIdentitySelected(identity)
             \/ \E identityId \in IdentityIds : RemoveIdentity(identityId)
          /\ GetCurrentFieldValue(selectedIdentities') # GetCurrentFieldValue(selectedIdentities) )
        => storageField' = GetCurrentFieldValue(selectedIdentities')]_vars

\* a chip removal has emptied the selection of the cascading control and the write of the
\* empty value is outstanding, and an identity has been picked and written
C14_Witness ==
  /\ rendered /\ Bound /\ selectedValues = <<>>
  /\ pendingWrites = <<EncodeValue(<<>>, Separator)>> /\ hostField # <<>>
  /\ Len(selectedIdentities) > 0 /\ storageField = GetCurrentFieldValue(selectedIdentities)

-----------------------------------------------------------------------------
(* A page with two cascading controls, a clock and clicks outside the controls *)

\* what the first control leaves alone when the second one handles an event
FirstUnchanged ==
  UNCHANGED <<fvars, ivars, witInputs, hostField, layout, host, now, data, configuration,
              selectedValues, expandedItems, treeVisible, popupActive, rendered, popupRef,
              domPopups, placement, loadsStarted, pendingLoads, pendingWrites, fieldName,
              workItemFormService, notified, popupCreatedTime, documentListeners>>

\* loadConfiguration of the second control, which has no field name: it renders at once
OtherLoadConfiguration ==
  /\ ~other.rendered /\ ~witInputs.FieldName
  /\ other' = NotifyLoadSucceeded(Render(
                 [other EXCEPT !.configuration = [parentSelectMode |-> witInputs.parentSelectMode,
                                                  multiSelectSeparator |-> witInputs.multiSelectSeparator],
                               !.data = ParsedData(witInputs.fieldValues)], layout))
  /\ FirstUnchanged

\* click on the element with data-action="toggle-tree" of the second control
OtherToggleTreeVisibility ==
  /\ other.rendered
  /\ LET c1 == [other EXCEPT !.treeVisible = ~@]
         c2 == IF c1.treeVisible THEN ShowTreePopup(c1, layout) ELSE HideTreePopup(c1)
     IN /\ c2.documentListeners <= 1 /\ Len(c2.domPopups) <= 1
        /\ other' = c2
  /\ FirstUnchanged

\* change of the checkbox of id in the popup of the second control
OtherCheckboxChange(id) ==
  /\ other.popupRef # 0
  /\ id \in other.domPopups[other.popupRef].boxes /\ id # <<>>
  /\ LET checked == id \notin other.domPopups[other.popupRef].checked
     IN other' = [other EXCEPT
                    !.domPopups[other.popupRef].checked = IF checked THEN @ \cup {id} ELSE @ \ {id},
                    !.selectedValues = IF checked THEN SetAdd(@, id) ELSE SetDelete(@, id)]
  /\ FirstUnchanged

PageInit ==
  CascadeInit(Inputs(TreePair, TRUE, {";"}, FALSE), {HealthyHost}) /\ layout = DefaultLayout /\ IdentityUnused

PageNext ==
  \/ LoadConfiguration
  \/ \E p \in 1..MaxPopups + 1, id \in AllIds : CheckboxChange(p, id)
  \/ \E id \in AllIds : RemoveButton(id)
  \/ ToggleTreeVisibility
  \/ \E p \in 1..MaxPopups + 1, id \in AllIds : ToggleExpanded(p, id)
  \/ OutsideClick
  \/ BackdropClick
  \/ Tick
  \/ OtherLoadConfiguration
  \/ OtherToggleTreeVisibility
  \/ \E id \in AllIds : OtherCheckboxChange(id)

SpecPage == PageInit /\ [][PageNext]_vars

\* an operation of the user on the first control
FirstOperation ==
  \/ \E p \in 1..MaxPopups + 1, id \in AllIds : CheckboxChange(p, id)
  \/ \E id \in AllIds : RemoveButton(id)
  \/ ToggleTreeVisibility
  \/ \E p \in 1..MaxPopups + 1, id \in AllIds : ToggleExpanded(p, id)
  \/ BackdropClick

\* C16 as stated: no toggle, expand, remove, popup open or popup close on one control
\* changes the selection, the expanded set, the popup flags or the popup elements of the
\* other control.
C16_OtherUntouched == [][FirstOperation => other' = other]_vars

\* C16: an operation on one control never changes the selection, the expanded set, the data
\* or the outstanding writes of the other control; it changes the popup of the other
\* control only when its click reaches the document (remove button, backdrop) at least
\* 200 ms after that popup was opened, and then that popup is closed as by a click outside.
C16_OtherKeepsItsState ==
  [][(other' # other /\ FirstOperation) =>
       /\ other'.selectedValues = other.selectedValues
       /\ other'.expandedItems = other.expandedItems
       /\ other'.data = other.data /\ other'.pendingWrites = other.pendingWrites
       /\ BackdropClick \/ \E id \in AllIds : RemoveButton(id)
       /\ other.popupActive /\ other.popupRef # 0
       /\ now - other.popupCreatedTime >= GracePeriod
       /\ ~other'.popupActive /\ ~other'.treeVisible /\ other'.domPopups = <<>>
       /\ other'.documentListeners = other.documentListeners - 1]_vars

\* both controls have a selection of their own and an open popup, the popup of the second
\* one older than the grace period, and the first one shows a chip whose remove button can
\* be clicked
C16_Witness ==
  /\ rendered /\ other.rendered
  /\ selectedValues # <<>> /\ other.selectedValues # <<>> /\ selectedValues # other.selectedValues
  /\ popupActive /\ other.popupActive /\ other.popupRef # 0
  /\ now - other.popupCreatedTime >= GracePeriod

-----------------------------------------------------------------------------
(* The open operation on a container without a trigger element *)

\* toggleTreeVisibility called on the instance itself, whatever the container holds
CallToggleTreeVisibility ==
  /\ LET c1 == [Ctl EXCEPT !.treeVisible = ~@]
         c2 == IF c1.treeVisible THEN ShowTreePopup(c1, layout) ELSE HideTreePopup(c1)
     IN /\ WithinBounds(c2)
        /\ Commit(c2)
  /\ UNCHANGED <<fvars, ivars, witInputs, hostField, layout, host, now, other, loadsStarted, pendingLoads>>

OpenNext ==
  \/ LoadConfiguration
  \/ LoadCurrentValue
  \/ CallToggleTreeVisibility
  \/ \E p \in 1..MaxPopups + 1, id \in AllIds : ToggleExpanded(p, id)

SpecOpen == Init /\ [][OpenNext]_vars

\* C20 as stated: when the container holds neither the add button nor the no-selection
\* element, toggleTreeVisibility leaves treeVisible, popupActive, the popups in the
\* document and the listeners on the document as they were.
C20_OpenWithoutTriggerIsNoOp ==
  [][(~rendered /\ CallToggleTreeVisibility)
       => UNCHANGED <<treeVisible, popupActive, domPopups, documentListeners>>]_vars

-----------------------------------------------------------------------------
(* CascadingMultiSelectControl of the SDK generation (first class of the file) *)

MaxRuns == 2

\* initialize: JSON.parse(fieldValues), and [] when it throws
FirstParse(fieldValues) ==
  IF fieldValues.json = "invalid" THEN JsonArray(<<>>) ELSE fieldValues

\* updateDataWithSelection: item.selected = selectedValues.has(item.id) for every item; on
\* data that is not an array forEach throws before any item is touched
UpdateDataWithSelection(d, selected, flags) ==
  IF d.json = "array"
  THEN [flags EXCEPT !.selected = Range(TreeIds(d.items)) \cap Range(selected)]
  ELSE flags

\* renderTree: a checkbox per selectable visible item, checked from item.selected; an expand
\* button per item with children, open from item.expanded
FirstRenderTree(d, flags, psm) ==
  LET vis == Range(VisibleItems(d.items, flags.expanded))
      boxes == {item.id : item \in {v \in vis : psm \/ ~HasChildren(v)}}
      buttons == {item.id : item \in {v \in vis : HasChildren(v)}}
  IN [boxes |-> boxes, checked |-> boxes \cap flags.selected,
      buttons |-> buttons, open |-> buttons \cap flags.expanded]

\* render: the tree, then renderSelectedValues
FirstRender(d, selected, flags, psm) ==
  LET t == FirstRenderTree(d, flags, psm)
  IN [shown |-> TRUE, live |-> TRUE, boxes |-> t.boxes, checked |-> t.checked,
      buttons |-> t.buttons, open |-> t.open, chips |-> selected]

\* the end of initialize: render and notifyLoadSucceeded; on data that is not an array
\* renderTree throws and the catch block calls notifyLoadFailed
FirstFinish(d, selected, flags) ==
  IF d.json = "array"
  THEN /\ firstView' = FirstRender(d, selected, flags, witInputs.parentSelectMode)
       /\ firstNotified' = [firstNotified EXCEPT !.succeeded = @ + 1]
  ELSE /\ firstView' = NoView
       /\ firstNotified' = [firstNotified EXCEPT !.failed = @ + 1]

FirstCascadeUnchanged ==
  UNCHANGED <<ivars, witInputs, layout, host, now, other, data, configuration, selectedValues,
              expandedItems, treeVisible, popupActive, rendered, popupRef, domPopups, placement,
              loadsStarted, pendingLoads, fieldName, workItemFormService, notified,
              popupCreatedTime, documentListeners>>

RemoveAt(seq, k) == SubSeq(seq, 1, k - 1) \o SubSeq(seq, k + 1, Len(seq))

\* initialize from the resolution of SDK.getService to the await of getFieldValue: field
\* name, configuration and data are set; without a field name it runs to its end
FirstConfigure ==
  /\ \E k \in 1..Len(firstRuns) :
       /\ firstRuns[k].awaits = "service"
       /\ \A j \in 1..(k - 1) : firstRuns[j].awaits # "service"
       /\ firstData' = FirstParse(witInputs.fieldValues)
       /\ firstFlags' = NoFlags
       /\ IF witInputs.FieldName
          THEN /\ firstRuns' = [firstRuns EXCEPT ![k].awaits = "value"]
               /\ firstView' = [firstView EXCEPT !.live = FALSE]
               /\ UNCHANGED firstNotified
          ELSE /\ firstRuns' = RemoveAt(firstRuns, k)
               /\ FirstFinish(firstData', firstSelected, NoFlags)
  /\ UNCHANGED <<firstSelected, hostField, pendingWrites>>
  /\ FirstCascadeUnchanged

\* initialize from the resolution of getFieldValue to its end: loadCurrentValue assigns the
\* selection only when the value is not empty, then render and notify
FirstLoadValue ==
  /\ firstRuns # <<>> /\ firstRuns[1].awaits = "value"
  /\ firstRuns' = Tail(firstRuns)
  /\ LET selected == IF hostField # <<>>
                     THEN LoadedValues(hostField, witInputs.multiSelectSeparator)
                     ELSE firstSelected
         flags == IF hostField # <<>>
                  THEN UpdateDataWithSelection(firstData, selected, firstFlags)
                  ELSE firstFlags
     IN /\ firstSelected' = selected
        /\ firstFlags' = flags
        /\ FirstFinish(firstData, selected, flags)
  /\ UNCHANGED <<firstData, hostField, pendingWrites>>
  /\ FirstCascadeUnchanged

\* reinitialize up to the first await of initialize
FirstReinitialize ==
  /\ Len(firstRuns) + firstNotified.succeeded + firstNotified.failed < MaxRuns
  /\ firstSelected' = <<>>
  /\ firstData' = JsonArray(<<>>)
  /\ firstFlags' = NoFlags
  /\ firstRuns' = Append(firstRuns, [awaits |-> "service", reinit |-> TRUE])
  /\ firstView' = [firstView EXCEPT !.live = FALSE]
  /\ UNCHANGED <<firstNotified, hostField, pendingWrites>>
  /\ FirstCascadeUnchanged

\* updateField: setFieldValue(fieldName, Array.from(selectedValues).join(separator))
FirstUpdateField(selected) ==
  IF witInputs.FieldName
  THEN Append(pendingWrites, EncodeValue(selected, witInputs.multiSelectSeparator))
  ELSE pendingWrites

\* toggleSelection: decided by item.selected; updateField, renderSelectedValues
FirstToggleSelection(id) ==
  /\ firstSelected' = IF id \in firstFlags.selected THEN SetDelete(firstSelected, id)
                      ELSE SetAdd(firstSelected, id)
  /\ firstFlags' = [firstFlags EXCEPT !.selected =
                      IF id \in @ THEN @ \ {id} ELSE @ \cup {id}]
  /\ pendingWrites' = FirstUpdateField(firstSelected')

\* the user acts on a view whose items are the items of this.data
FirstViewUsable ==
  /\ firstView.shown /\ firstView.live
  /\ witInputs.FieldName => Len(pendingWrites) < MaxPending

\* change of the checkbox of item id
FirstCheckboxChange(id) ==
  /\ FirstViewUsable /\ id \in firstView.boxes
  /\ FirstToggleSelection(id)
  /\ firstView' = [firstView EXCEPT !.checked = IF id \in @ THEN @ \ {id} ELSE @ \cup {id},
                                    !.chips = firstSelected']
  /\ UNCHANGED <<firstData, firstRuns, firstNotified, hostField>>
  /\ FirstCascadeUnchanged

\* click on the label of item id
FirstLabelClick(id) ==
  /\ FirstViewUsable /\ id \in firstView.boxes
  /\ FirstToggleSelection(id)
  /\ firstView' = [firstView EXCEPT !.chips = firstSelected']
  /\ UNCHANGED <<firstData, firstRuns, firstNotified, hostField>>
  /\ FirstCascadeUnchanged

\* toggleExpand, from the expand button of item id
FirstToggleExpand(id) ==
  /\ firstView.shown /\ firstView.live /\ id \in firstView.buttons
  /\ firstFlags' = [firstFlags EXCEPT !.expanded = IF id \in @ THEN @ \ {id} ELSE @ \cup {id}]
  /\ firstView' = FirstRender(firstData, firstSelected, firstFlags', witInputs.parentSelectMode)
  /\ UNCHANGED <<firstData, firstSelected, firstRuns, firstNotified, hostField, pendingWrites>>
  /\ FirstCascadeUnchanged

\* the remove button of the chip of value
FirstRemoveChip(value) ==
  /\ FirstViewUsable /\ value \in Range(firstView.chips)
  /\ firstSelected' = SetDelete(firstSelected, value)
  /\ firstFlags' = UpdateDataWithSelection(firstData, firstSelected', firstFlags)
  /\ pendingWrites' = FirstUpdateField(firstSelected')
  /\ firstView' = FirstRender(firstData, firstSelected', firstFlags', witInputs.parentSelectMode)
  /\ UNCHANGED <<firstData, firstRuns, firstNotified, hostField>>
  /\ FirstCascadeUnchanged

\* values another client or a rule of the form gives to the bound field
ForeignValues == {<<>>, id_y}

\* the bound field is changed by somebody else
HostFieldChanges(value) ==
  /\ hostField # value
  /\ hostField' = value
  /\ UNCHANGED <<fvars, pendingWrites>>
  /\ FirstCascadeUnchanged

FirstConfigurations ==
  Inputs(TreeCat, FALSE, {";"}, TRUE) \cup Inputs(TreeCat, FALSE, {";"}, FALSE) \cup BrokenInputs

FirstInit ==
  /\ EnvironmentInit(FirstConfigurations, {HealthyHost}) /\ InstanceConstructed
  /\ FirstFields /\ firstRuns = <<[awaits |-> "service", reinit |-> FALSE]>>
  /\ layout = DefaultLayout /\ IdentityUnused

FirstNext ==
  \/ FirstConfigure
  \/ FirstLoadValue
  \/ FirstReinitialize
  \/ \E id \in AllIds : FirstCheckboxChange(id)
  \/ \E id \in AllIds : FirstLabelClick(id)
  \/ \E id \in AllIds : FirstToggleExpand(id)
  \/ \E value \in AllIds : FirstRemoveChip(value)
  \/ HostSetFieldValue
  \/ HostRejectsFieldValue
  \/ \E value \in ForeignValues : HostFieldChanges(value)

SpecFirst == FirstInit /\ [][FirstNext]_vars

\* C12 as stated: when the initialize call made by reinitialize completes, the selection is
\* exactly the decode of the field value it was given, whatever an earlier initialize call
\* still in flight has loaded meanwhile.
C12_ReinitializeReplaces ==
  [][(firstRuns # <<>> /\ firstRuns[1].awaits = "value" /\ firstRuns[1].reinit /\ FirstLoadValue)
       => firstSelected' = Decoded(hostField, witInputs.multiSelectSeparator)]_vars

\* what a render of the current selection and expanded flags shows
FirstViewAgrees ==
  LET t == FirstRenderTree(firstData, [selected |-> Range(firstSelected),
                                       expanded |-> firstFlags.expanded],
                           witInputs.parentSelectMode)
  IN /\ firstView.boxes = t.boxes /\ firstView.checked = t.checked
     /\ firstView.buttons = t.buttons /\ firstView.open = t.open
     /\ firstView.chips = firstSelected

\* C17 as stated: when the handler of a select toggle, an expand toggle or a chip removal
\* returns, the checked flags, the arrows with the visible children and the chips agree
\* with the selection and the expanded items.
C17_ViewFollowsToggle ==
  [][( \/ \E id \in AllIds : FirstCheckboxChange(id)
       \/ \E id \in AllIds : FirstLabelClick(id)
       \/ \E id \in AllIds : FirstToggleExpand(id)
       \/ \E value \in AllIds : FirstRemoveChip(value) )
       => FirstViewAgrees']_vars

\* C18 as stated: when fieldValues is invalid JSON, is not an array or is an empty array,
\* the control goes on with the default tree category1{item1,item2}, category2{item3,item4}
\* and never calls notifyLoadFailed.
C18_FallbackToDefaultTree ==
  (witInputs.fieldValues.json # "array" \/ witInputs.fieldValues.items = <<>>)
    => /\ firstNotified.failed = 0
       /\ firstNotified.succeeded > 0 => firstData = JsonArray(GetDefaultData)

-----------------------------------------------------------------------------
(* Properties of the overlay placement *)

Clamp(x, lo, hi) == IF x < lo THEN lo ELSE IF x > hi THEN hi ELSE x

\* the window height, the two spaces and the side of the first pass, read off the measurements
MeasuredHeight(l) ==
  IF l.parent = "readable" /\ l.parentHeight # 0 /\ 2 * l.parentHeight > 3 * l.innerHeight
  THEN l.parentHeight ELSE l.innerHeight
MeasuredBelow(l) == MeasuredHeight(l) - (l.bottom + 4)
MeasuredAbove(l) == l.top - 10
FirstSideAbove(l) == MeasuredAbove(l) > MeasuredBelow(l) /\ MeasuredAbove(l) > 50

\* C21: for every trigger rectangle and viewport, the max height applied to the panel, after
\* the first pass and after the post-placement correction, lies between 60 and 300, and after
\* the first pass it equals clamp(chosenSpace - 15, 80, 300).
C21_HeightBounds ==
  placement.side # "none" =>
    LET l == placement.at
        chosenSpace == IF FirstSideAbove(l) THEN MeasuredAbove(l) ELSE MeasuredBelow(l)
    IN /\ placement.firstMaxHeight = Clamp(chosenSpace - 15, 80, 300)
       /\ placement.firstMaxHeight >= 60 /\ placement.firstMaxHeight <= 300
       /\ placement.maxHeight >= 60 /\ placement.maxHeight <= 300

\* the bottom edge of the panel under the first pass and under the style finally applied
FirstBottom(p) ==
  (IF FirstSideAbove(p.at) THEN p.at.top - p.firstMaxHeight - 4 ELSE p.at.bottom + 4)
    + Min(p.at.contentHeight, p.firstMaxHeight)
FinalBottom(p) == p.top + Min(p.at.contentHeight, p.maxHeight)

\* C22: if after the first pass the panel's bottom edge is beyond the viewport bottom, then
\* after the correction the panel no longer extends past the viewport bottom (a viewport with
\* less than 60 px on both sides of the trigger excepted).
C22_NoOverflowAfterCorrection ==
  placement.side # "none" =>
    LET l == placement.at
    IN (/\ FirstBottom(placement) > MeasuredHeight(l)
        /\ ~(MeasuredAbove(l) < 60 /\ MeasuredBelow(l) < 60))
         => FinalBottom(placement) <= MeasuredHeight(l)

-----------------------------------------------------------------------------
(* Selection and expansion of the cascading control *)

\* C23: in parent-selectable mode a toggle of a node, parent or child, changes the membership
\* in the selection of no other node: nothing cascades to ancestors or descendants.
C23_IndependentSelection ==
  [][\A p \in 1..MaxPopups + 1, id \in AllIds :
       (configuration.parentSelectMode /\ CheckboxChange(p, id)) =>
         \A j \in AllIds \ {id} :
           (j \in Range(selectedValues')) <=> (j \in Range(selectedValues))]_vars

\* in parent-selectable mode the parent p was ticked and written while its child q is not
\* selected
C23_Witness ==
  /\ configuration.parentSelectMode /\ data = TreePair /\ Len(domPopups) > 0
  /\ id_p \in Range(selectedValues) /\ id_q \notin Range(selectedValues)
  /\ pendingWrites # <<>> /\ pendingWrites[Len(pendingWrites)] = id_p

-----------------------------------------------------------------------------
(* The decode paths of the identity control, on tokens of each form of the grammar *)

gil_name == <<"G">>

\* a token "name <u>", a bare e-mail address, a bare name
DecodeTokens == { Token(<<"A">>, ann_mail), carl_mail, gil_name }

\* stored values: both delimiters in one line with a blank token, lines with a delimiter
\* inside a line and a blank line, lines ended by \r\n
DecodeStoredValues ==
  { Token(<<"A">>, ann_mail) \o <<";">> \o carl_mail \o <<",", " ", ";">> \o gil_name,
    Token(doe_name, doe_mail) \o <<"\n", " ", "\n">> \o carl_mail \o <<"\n">>,
    Token(<<"A">>, ann_mail) \o <<"\r", "\n">> \o gil_name \o <<";">> \o <<"H">> }

DecodeIds == {ann_mail, carl_mail, doe_mail, gil_name}

DecodeInit ==
  /\ CascadingIdle
  /\ idInputs \in IdentityInputs({Undefined}, {Undefined})
  /\ storageField \in DecodeStoredValues
  /\ IdentityIdle

DecodeNext ==
  \/ ParseConfiguration
  \/ LoadFieldValue
  \/ CheckFieldValue
  \/ ClearSourceField
  \/ \E token \in DecodeTokens : UserPicksSource(TextValue(token))
  \/ \E token \in DecodeTokens : AddManualIdentity(token)
  \/ \E identityId \in DecodeIds : RemoveIdentity(identityId)

SpecDecode == DecodeInit /\ [][DecodeNext]_vars

\* display name and unique name the token grammar gives a token
GrammarPair(token) ==
  LET i == ParseIdentityString(token) IN <<i.displayName, i.uniqueName>>

NamePair(identity) == <<identity.displayName, identity.uniqueName>>

\* the tokens of a stored value: its lines when it has a newline, else its ';' and ','
\* separated parts; trimmed, blank ones dropped
TokensOf(value) ==
  NonEmpty(MapTrim(Split(value, IF "\n" \in Range(value) THEN {"\n"} ELSE {";", ","})))

\* C24: parseIdentityString maps "name <u>" to (name, u), a token with '@' and no angle
\* brackets to (the part before the first '@', the token) and any other token to
\* (token, token), and every decode path (load of the stored value, change of the source
\* field, manual entry) gives the identities it adds the names of this mapping.
C24_OneTokenGrammar ==
  [][/\ GrammarPair(Token(<<"A">>, ann_mail)) = <<(<<"A">>), ann_mail>>
     /\ GrammarPair(carl_mail) = <<(<<"c">>), carl_mail>>
     /\ GrammarPair(gil_name) = <<gil_name, gil_name>>
     /\ \A token \in DecodeTokens :
          (AddManualIdentity(token) \/ (sourceField = TextValue(token) /\ CheckFieldValue)) =>
            \A k \in Len(selectedIdentities) + 1..Len(selectedIdentities') :
              NamePair(selectedIdentities'[k]) = GrammarPair(token)
     /\ LoadFieldValue =>
          \A k \in Len(selectedIdentities) + 1..Len(selectedIdentities') :
            \E token \in Range(TokensOf(storageField)) :
              NamePair(selectedIdentities'[k]) = GrammarPair(token)]_vars

\* C25: a stored value that contains a newline is split on line breaks only, any other
\* value on ';' and ',' alike, and blank tokens are dropped: a load into an empty selection
\* yields one identity per token, in order.
C25_DecodeSplitRule ==
  [][(LoadFieldValue /\ selectedIdentities = <<>>) =>
       LET tokens == TokensOf(storageField)
       IN /\ Len(selectedIdentities') = Len(tokens)
          /\ \A k \in 1..Len(tokens) :
               NamePair(selectedIdentities'[k]) = GrammarPair(tokens[k])]_vars

\* the value with the line "D,E <d@x>", a blank line and the line "c@x" was loaded as two
\* identities, the first one named "D,E"
C25_Witness ==
  /\ phase = "ready" /\ "\n" \in Range(storageField)
  /\ Len(selectedIdentities) = 2
  /\ NamePair(selectedIdentities[1]) = <<doe_name, doe_mail>>
  /\ NamePair(selectedIdentities[2]) = <<(<<"c">>), carl_mail>>

\* C26: the remove button of a chip removes exactly its id: afterwards the id is not
\* selected, every other selected entry keeps its place and the expanded set is unchanged,
\* whether or not the id is selectable under the current mode; deleting an id that is not
\* selected leaves the selection as it is.
C26_RemoveExactlyThatId ==
  /\ [][\A id \in AllIds \cup {id_ghost} :
          RemoveButton(id) =>
            /\ id \notin Range(selectedValues')
            /\ \A e \in Range(selectedValues) \ {id} : e \in Range(selectedValues')
            /\ Len(selectedValues') = Len(selectedValues) - 1
            /\ \A j, k \in 1..Len(selectedValues') :
                 j < k => \E m, n \in 1..Len(selectedValues) :
                            /\ m < n /\ selectedValues[m] = selectedValues'[j]
                            /\ selectedValues[n] = selectedValues'[k]
            /\ expandedItems' = expandedItems]_vars
  /\ [](\A id \in (AllIds \cup {id_ghost}) \ Range(selectedValues) :
          SetDelete(selectedValues, id) = selectedValues)

\* in child-only mode the chip of the stored parent id cat was removed: the selection is
\* empty and the empty value is on its way to the field, which still holds "cat"
C26_Witness ==
  /\ ~configuration.parentSelectMode /\ data = TreeCat /\ rendered
  /\ hostField = id_cat /\ selectedValues = <<>> /\ pendingWrites = <<(<<>>)>>

\* C27: toggleExpand flips the membership of the given container id in the expanded set and
\* changes nothing else (the selection is untouched), and in every reachable state the
\* expanded set holds only ids of nodes that have children.
C27_ToggleExpandFlips ==
  /\ [][\A p \in 1..MaxPopups + 1, id \in AllIds :
          ToggleExpanded(p, id) =>
            /\ (id \in expandedItems') # (id \in expandedItems)
            /\ expandedItems' \ {id} = expandedItems \ {id}
            /\ selectedValues' = selectedValues]_vars
  /\ [](expandedItems \subseteq ContainerIds(data))

\* C28: a node gets a checkbox, and so can be toggled by the user, iff parentSelectMode is on
\* or the node has no children, an absent and an empty children list alike: no popup holds the
\* checkbox of another node, and the popup just rendered holds one for every such node it shows.
C28_SelectabilityRule ==
  LET Selectable(item) == configuration.parentSelectMode \/ Len(item.children) = 0
      shown == Range(VisibleItems(data, expandedItems))
      nodes == Range(VisibleItems(data, ContainerIds(data)))
  IN /\ \A p \in DOMAIN domPopups :
          domPopups[p].boxes \subseteq {item.id : item \in {v \in nodes : Selectable(v)}}
     /\ popupRef # 0 =>
          domPopups[popupRef].boxes = {item.id : item \in {v \in shown : Selectable(v)}}

\* child-only mode, flat tree: the popup shows a checkbox for a, which has no children key,
\* and for b, whose children list is empty
C28_Witness ==
  /\ ~configuration.parentSelectMode /\ data = TreeFlat /\ popupRef # 0
  /\ domPopups[popupRef].boxes = {id_a, id_b}

-----------------------------------------------------------------------------
(* Properties of the overlay placement: the horizontal position and the window height *)

\* C29: the panel's left edge is the trigger's left edge unless the panel's right edge would
\* then exceed the viewport width, in which case the panel's right edge is the trigger's
\* right edge (left = T.right - panelWidth).
C29_HorizontalPlacement ==
  placement.side # "none" =>
    LET l == placement.at
    IN IF l.left + l.popupWidth > l.innerWidth
       THEN placement.left + l.popupWidth = l.right
       ELSE placement.left = l.left

\* a popup 200 wide was opened for the trigger {left 700, right 800} in a window 800 wide
\* and starts at 600
C29_Witness ==
  /\ popupActive /\ placement.side # "none"
  /\ placement.at.left = 700 /\ placement.at.right = 700 + TriggerWidth
  /\ placement.at.popupWidth = 200 /\ placement.at.innerWidth = 800
  /\ placement.left = 500 + TriggerWidth

\* C30: the height used for the placement is the parent window's height iff the control runs
\* in a frame, the parent's height can be read, and it exceeds 1.5 times the local viewport
\* height; in every other case, a cross-origin parent included, it is the local height.
C30_ViewportHeightChoice ==
  placement.side # "none" =>
    LET l == placement.at
        useParent == /\ l.parent = "readable"
                     /\ 10 * l.parentHeight > 15 * l.innerHeight
    IN placement.viewportHeight = IF useParent THEN l.parentHeight ELSE l.innerHeight

\* a popup was opened in a frame 200 high whose parent window is 301 high, which is used
C30_Witness ==
  /\ popupActive /\ placement.at.parent = "readable"
  /\ placement.at.innerHeight = 200 /\ placement.at.parentHeight = 301
  /\ placement.viewportHeight = 301

\* ---------------------------------------------------------------------------
\* A configured tree that repeats an id

TwinInit ==
  /\ CascadeInit(Inputs(TreeTwin, FALSE, {";"}, TRUE), {HealthyHost})
  /\ layout = DefaultLayout /\ IdentityUnused

TwinNext ==
  \/ LoadConfiguration
  \/ LoadCurrentValue
  \/ \E p \in 1..MaxPopups + 1, id \in AllIds : CheckboxChange(p, id)
  \/ \E p \in 1..MaxPopups + 1, row \in 1..Len(TreeTwin) : LaterCheckboxChange(p, row)
  \/ \E id \in AllIds : RemoveButton(id)
  \/ ToggleTreeVisibility
  \/ BackdropClick
  \/ HostSetFieldValue

SpecTwin == TwinInit /\ [][TwinNext]_vars

\* C31: when the configured tree repeats an id, the first occurrence in traversal order wins:
\* the name shown for the id is the first occurrence's name, no rendered popup offers a
\* checkbox for a later node with the same id (later occurrences are unreachable, selecting
\* and deselecting go through the first occurrence only), and rendering still succeeds.
C31_FirstOccurrenceWins ==
  /\ rendered => GetItemName(data, id_a) = <<"1">>
  /\ \A p \in 1..Len(domPopups) : domPopups[p].later = {}
  /\ notified.failed = 0


\* the ids of the chips, in the order shown
ChipIds(c) == [k \in 1..Len(RenderSelectedValues(c)) |-> RenderSelectedValues(c)[k].id]

\* C32: the chips of the selected list appear in tree traversal order of the selected ids,
\* whatever the order in which the ids were selected or loaded.
C32_ChipsInTreeOrder ==
  (rendered /\ Range(selectedValues) \subseteq TreeIdSet)
    => ChipIds(Ctl) = InTreeOrder(selectedValues, data)

\* C33: whenever a handler has returned there is at most one tree popup (with its backdrop)
\* in the DOM for the control, a popup exists exactly when popupActive is true, and
\* treeVisible equals popupActive.
C33_SinglePopupConsistentFlags ==
  /\ Len(domPopups) <= 1
  /\ (Len(domPopups) = 1) <=> popupActive
  /\ treeVisible = popupActive

\* C34: a close request (a click on the backdrop, or on the toggle-tree trigger while the
\* tree is shown) removes the popup and its backdrop from the DOM, removes the document
\* click listener and leaves treeVisible and popupActive false, also when a checkbox was
\* changed or a chip was removed while the popup was open.
C34_CloseRequestCloses ==
  [][(BackdropClick \/ (treeVisible /\ ToggleTreeVisibility))
       => (/\ domPopups' = <<>>
           /\ documentListeners' = 0
           /\ ~treeVisible' /\ ~popupActive')]_vars

\* C35: once the control has rendered and the user has changed the selection (the write of
\* the change is still on its way to the host), a later completion of getFieldValue, such
\* as that of the second loadConfiguration, leaves the selection as the user made it.
C35_EditsSurviveLateLoads ==
  [][(rendered /\ pendingWrites # <<>> /\ LoadCurrentValue)
       => selectedValues' = selectedValues]_vars

\* C36: a control instance calls notifyLoadSucceeded at most once, and it never calls both
\* notifyLoadSucceeded and notifyLoadFailed.
C36_NotifyOnce ==
  /\ notified.succeeded <= 1
  /\ ~(notified.succeeded > 0 /\ notified.failed > 0)

\* C37: whenever the panel is placed above the trigger, by the first pass or by the
\* correction, its top is not negative and its bottom edge, the top plus the maximum
\* height, is not below the top of the trigger.
C37_AboveStaysOnScreen ==
  (popupActive /\ placement.side = "above")
    => /\ placement.top >= 0
       /\ placement.top + placement.maxHeight <= placement.at.top

\* C38: in the first class, in every state in which no initialize call is in flight, for
\* every node of the tree node.selected is true exactly when the node's id is in
\* selectedValues: after load, after label and checkbox toggles and after chip removals.
C38_FlagSetAgreement ==
  (firstRuns = <<>> /\ firstData.json = "array")
    => \A id \in Range(TreeIds(firstData.items)) :
         (id \in firstFlags.selected) <=> (id \in Range(firstSelected))

\* C39: while the host has reported the storage field as read-only, no user-driven event
\* (a picked identity, a change of the identity source field seen by the poller, a manual
\* entry, a chip removal) changes selectedIdentities or writes the storage field.
C39_ReadOnlyNotModified ==
  [][(/\ isReadOnly
      /\ \/ \E identity \in Directory : OnIdentitySelected(identity)
         \/ CheckFieldValue
         \/ \E value \in ManualEntries : AddManualIdentity(value)
         \/ \E identityId \in IdentityIds : RemoveIdentity(identityId))
       => (selectedIdentities' = selectedIdentities /\ storageField' = storageField)]_vars

====
